---- MODULE Spec2Model ----
(***************************************************************************)
(* A model of the agent-memory service (BashC0de/Memories): the ranking    *)
(* and deduplication function of utils.py and the tier handlers with their *)
(* backing stores.                                                         *)
(***************************************************************************)
EXTENDS Integers, Sequences, FiniteSets, TLC

VARIABLES
    redis,      \* the Redis keyspace of REDIS_URL: key -> [val, ttl]
    procTable,  \* PROCEDURAL_MEMORY_TABLE, the items in scan order
    epiIndex,   \* EPISODIC_INDEX_TABLE, the items in query order
    s3,         \* S3_BUCKET: key -> object
    ltmTable,   \* LONGTERM_MEMORY_TABLE, the items in query order
    semIndex,   \* the OpenSearch index semanticmemory: id -> document
    clock,      \* utcnow(), in seconds
    nextId,     \* the ids and timestamps drawn so far (uuid4, utcnow)
    resp,       \* the last request and the response it got
    rk,         \* one call of merge_and_rank_results and a second call on its output
    call        \* one call of a function of utils.py, tenant_auth.py or the embedding helpers

vars == <<redis, procTable, epiIndex, s3, ltmTable, semIndex, clock, nextId, resp, rk, call>>

\* everything but the response
stores == <<redis, procTable, epiIndex, s3, ltmTable, semIndex, clock, nextId, rk, call>>

\* what the Redis tiers write, and what they leave alone
kvVars == <<redis, nextId>>
kvOthers == <<procTable, epiIndex, s3, ltmTable, semIndex, clock, rk, call>>

(***************************************************************************)
(* utils.py: merge_and_rank_results                                        *)
(*                                                                         *)
(* A candidate is a dict.  Scores are floats in the code and tenths here   *)
(* (0.7 is 7); timestamps are ISO strings in the code, compared as         *)
(* strings, and here the integers in the same order, with 0 for the empty  *)
(* string; contents are strings in the code and here integer codes, with 0 *)
(* for the empty string.  A key the dict does not have is Absent.  The id  *)
(* of a candidate is its position in the list given to the first call.     *)
(***************************************************************************)
Absent == -1

MaxLen == 3
MaxResults == 3
FingerprintSpace == 3

ScoreValues == {Absent, 9}
TimestampValues == {Absent, 1}
ContentValues == {Absent, 1, 2, 3}
Thresholds == {0, 7}

Candidate == [relevance_score : ScoreValues, timestamp : TimestampValues,
              content : ContentValues]

Tagged(c, i) == [id |-> i, relevance_score |-> c.relevance_score,
                 timestamp |-> c.timestamp, content |-> c.content]

\* A list of n candidates, each tagged with its place.
TaggedList(f, n) == [i \in 1..n |-> Tagged(f[i], i)]

\* result.get('relevance_score', 0)
GetScore(result) == IF result.relevance_score = Absent THEN 0 ELSE result.relevance_score

\* x.get('timestamp', '')
GetTimestamp(result) == IF result.timestamp = Absent THEN 0 ELSE result.timestamp

\* result.get('content', '')
GetContent(result) == IF result.content = Absent THEN 0 ELSE result.content

\* hashlib.sha256(content.encode()).hexdigest()[:16]: a digest cut to a fixed
\* number of values, so that different contents can share a fingerprint.
hash_content(content) == content % FingerprintSpace

\* The filter with 1.0 as the score of a candidate that has none.
FilterDefaultOne(results, relevance_threshold) ==
    SelectSeq(results, LAMBDA r : (IF r.relevance_score = Absent THEN 10 ELSE r.relevance_score)
                                      >= relevance_threshold)

\* [result for result in results if result.get('relevance_score', 0) >= relevance_threshold]
FilterResults(results, relevance_threshold) ==
    SelectSeq(results, LAMBDA r : GetScore(r) >= relevance_threshold)

\* The sort key (relevance_score, timestamp), compared as Python compares tuples.
KeyGreater(a, b) ==
    \/ GetScore(a) > GetScore(b)
    \/ GetScore(a) = GetScore(b) /\ GetTimestamp(a) > GetTimestamp(b)

KeyEqual(a, b) == GetScore(a) = GetScore(b) /\ GetTimestamp(a) = GetTimestamp(b)

\* x goes behind every element whose key is greater than or equal to its own.
InsertStable(sorted, x) ==
    LET n == Cardinality({ i \in DOMAIN sorted : KeyGreater(sorted[i], x) \/ KeyEqual(sorted[i], x) })
    IN  SubSeq(sorted, 1, n) \o <<x>> \o SubSeq(sorted, n + 1, Len(sorted))

\* The sort with the score as its only key.
InsertByScore(sorted, x) ==
    LET n == Cardinality({ i \in DOMAIN sorted : GetScore(sorted[i]) >= GetScore(x) })
    IN  SubSeq(sorted, 1, n) \o <<x>> \o SubSeq(sorted, n + 1, Len(sorted))

RECURSIVE SortByScoreOnly(_)
SortByScoreOnly(results) ==
    IF results = <<>> THEN <<>>
    ELSE InsertByScore(SortByScoreOnly(SubSeq(results, 1, Len(results) - 1)),
                       results[Len(results)])

\* x goes behind the elements whose key is greater, before those with its own key.
InsertBeforeEqual(sorted, x) ==
    LET n == Cardinality({ i \in DOMAIN sorted : KeyGreater(sorted[i], x) })
    IN  SubSeq(sorted, 1, n) \o <<x>> \o SubSeq(sorted, n + 1, Len(sorted))

RECURSIVE SortReversedTies(_)
SortReversedTies(results) ==
    IF results = <<>> THEN <<>>
    ELSE InsertBeforeEqual(SortReversedTies(SubSeq(results, 1, Len(results) - 1)),
                           results[Len(results)])

\* sorted(filtered_results, key=..., reverse=True): descending and stable.
RECURSIVE SortResults(_)
SortResults(results) ==
    IF results = <<>> THEN <<>>
    ELSE InsertStable(SortResults(SubSeq(results, 1, Len(results) - 1)),
                      results[Len(results)])

\* The last candidate of each fingerprint is the one kept.
RECURSIVE UniqueKeepLast(_)
UniqueKeepLast(sorted_results) ==
    IF sorted_results = <<>> THEN <<>>
    ELSE LET head == sorted_results[1]
             rest == SubSeq(sorted_results, 2, Len(sorted_results))
         IN  IF \E i \in DOMAIN rest :
                    hash_content(GetContent(rest[i])) = hash_content(GetContent(head))
             THEN UniqueKeepLast(rest)
             ELSE <<head>> \o UniqueKeepLast(rest)

\* The loop over sorted_results with seen_hashes: the first candidate of each
\* fingerprint is kept.
RECURSIVE UniqueLoop(_, _)
UniqueLoop(sorted_results, seen_hashes) ==
    IF sorted_results = <<>> THEN <<>>
    ELSE LET result == sorted_results[1]
             content_hash == hash_content(GetContent(result))
             rest == SubSeq(sorted_results, 2, Len(sorted_results))
         IN  IF content_hash \notin seen_hashes
             THEN <<result>> \o UniqueLoop(rest, seen_hashes \cup {content_hash})
             ELSE UniqueLoop(rest, seen_hashes)

UniqueResults(sorted_results) == UniqueLoop(sorted_results, {})

\* unique_results[:max_results], for max_results >= 0
Truncate(unique_results, max_results) ==
    SubSeq(unique_results, 1, IF max_results < Len(unique_results)
                                 THEN max_results ELSE Len(unique_results))

\* The slice taken before the duplicates are removed.
MergeTruncateFirst(results, max_results, relevance_threshold) ==
    UniqueResults(Truncate(SortResults(FilterResults(results, relevance_threshold)), max_results))

merge_and_rank_results(results, max_results, relevance_threshold) ==
    Truncate(UniqueResults(SortResults(FilterResults(results, relevance_threshold))), max_results)

(***************************************************************************)
(* Strings.  A string of the program is a sequence of tokens: a literal of *)
(* a key template, a separator, a generated id, or a piece of a string the *)
(* caller supplies.  "*" is the glob star of a Redis MATCH pattern.        *)
(***************************************************************************)
None == <<"None">>                      \* Python's None, a missing key or parameter
DefaultTenant == <<"default_tenant">>

MaxWrites == 2

Tenants == {<<"a">>, <<"b">>}           \* the tenants that send requests
TenantIds == Tenants \cup {<<"*">>}     \* what a caller may put into a tenant_id field
SessionIds == {<<"s1">>, <<"*">>}           \* what a caller may put into a session_id field
TtlInputs == {Absent, 0, 60, -5}        \* ttl_seconds of a body: missing, zero, positive, negative
Limits == {1, 10}
NoExpiry == -1                          \* the TTL of a key written by SET, without EX

\* redis-py's glob match of a whole key (the star only).
RECURSIVE GlobMatch(_, _)
GlobMatch(pattern, key) ==
    IF pattern = <<>> THEN key = <<>>
    ELSE IF Head(pattern) = "*"
         THEN \/ GlobMatch(Tail(pattern), key)
              \/ key # <<>> /\ GlobMatch(pattern, Tail(key))
         ELSE /\ key # <<>>
              /\ Head(key) = Head(pattern)
              /\ GlobMatch(Tail(pattern), Tail(key))

\* The sequences that list the elements of a set once each, in any order.
RECURSIVE Orders(_)
Orders(S) == IF S = {} THEN {<<>>}
             ELSE UNION { { <<x>> \o o : o \in Orders(S \ {x}) } : x \in S }

\* seq[:limit], for limit >= 0
Prefix(seq, limit) == SubSeq(seq, 1, IF limit < Len(seq) THEN limit ELSE Len(seq))

\* generate_id(prefix): f"{prefix}_{uuid4()}", the n-th uuid drawn
generate_id(prefix, n) == prefix \o "_" \o ToString(n)

\* The request and its response: the operation, the tenant of the requester
\* (ctx, what the routing layer's authentication or the X-Tenant-ID header
\* says), the tenant_id the request carries (given, None when it carries
\* none), the session, key or entity it names (arg), the status code, the
\* tenant the handler worked under, the records or items of the body, the id
\* and ttl_seconds of a write's body, the store calls the handling made, in
\* order, and what else the request was (req).
Response(op, ctx, given, arg, status, tenant, items, id, ttl, calls, req) ==
    [op |-> op, ctx |-> ctx, given |-> given, arg |-> arg, status |-> status,
     tenant |-> tenant, items |-> items, id |-> id, ttl |-> ttl, calls |-> calls,
     req |-> req]

\* Of a request: the ttl_seconds it carries (Absent when none), whether it
\* has every required field, and the store call that failed while it was
\* handled ("none" when every call the handler made went through).
Request(ttl_in, complete, failed) == [ttl_in |-> ttl_in, complete |-> complete, failed |-> failed]

NoResponse == Response("none", None, None, None, 0, None, <<>>, "", Absent, <<>>,
                       Request(Absent, TRUE, "none"))

(***************************************************************************)
(* services/redis.py: RedisAdapter                                         *)
(***************************************************************************)
\* RedisAdapter.set: SETEX when ttl_seconds is truthy, SET otherwise.  A
\* negative expire time is an error of the server, which set re-raises.
RedisSetRaises(ttl_seconds) == ttl_seconds < 0

RedisSet(store, key, value, ttl_seconds) ==
    [k \in DOMAIN store \cup {key} |->
        IF k = key THEN [val |-> value, ttl |-> IF ttl_seconds # 0 THEN ttl_seconds ELSE NoExpiry]
        ELSE store[k]]

\* RedisAdapter.get: the value, None when the key is missing
RedisHas(store, key) == key \in DOMAIN store

\* RedisAdapter.delete
RedisDelete(store, key) == [k \in DOMAIN store \ {key} |-> store[k]]

\* RedisAdapter.scan_keys: list(scan_iter(match=pattern)), in the order of the scan
RedisScanKeys(store, pattern) == { k \in DOMAIN store : GlobMatch(pattern, k) }

\* An element of the list of get_multiple: None, or a dict
NoValue == [found |-> FALSE]
Value(dict) == [found |-> TRUE, dict |-> dict]

\* get_multiple with a deserialize_memory that parses the str: the value of
\* each key that is there
RedisGetMultipleStored(store, keys) ==
    [i \in DOMAIN keys |-> IF keys[i] \in DOMAIN store THEN Value(store[keys[i]].val) ELSE NoValue]

\* RedisAdapter.get_multiple: mget gives each value as a str or None;
\* deserialize_memory(v) calls v.items(), which a str does not have, and the
\* except branch returns [None] * len(keys).  With every value None the
\* comprehension gives the same list.
RedisGetMultiple(store, keys) == [i \in DOMAIN keys |-> NoValue]

\* RedisAdapter.keys: the client is built with decode_responses=True, so
\* client.keys gives str, key.decode raises AttributeError on the first key,
\* the except branch prints and the method returns []; with no key matching
\* the comprehension is [] as well.
RedisKeys(store, pattern) == {}

(***************************************************************************)
(* handlers/shortterm_handler.py                                           *)
(***************************************************************************)
\* ttl_seconds=body.get('ttl_seconds', 604800)
ShorttermDefaultTtl == 604800

\* The tier default of the working tier where the short-term one belongs.
ShorttermTtlWorkingDefault(ttl_in) == IF ttl_in = Absent THEN 3600 ELSE ttl_in

\* The ttl_seconds of the ShorttermMemory: the body's, 604800 without one
ShorttermTtl(ttl_in) == IF ttl_in = Absent THEN ShorttermDefaultTtl ELSE ttl_in

ShorttermSessionKey(session_id, memory_id) == <<"session:">> \o session_id \o <<":", memory_id>>

ShorttermPattern(session_id) == <<"session:">> \o session_id \o <<":", "*">>

\* ShorttermMemory(...).to_dict(); writer is history, the tenant of the
\* requester, which the handler never receives and never stores.
ShorttermRecord(memory_id, session_id, ttl_seconds, writer) ==
    [tier |-> "shortterm", id |-> memory_id, session_id |-> session_id,
     ttl_seconds |-> ttl_seconds, writer |-> writer]

\* lambda_handler POST -> ShorttermMemoryHandler.add_memory.  fail names the
\* store call at which Redis is down (none, connect, set1, set2).
ShorttermAdd(ctx, hasContent, session_id, ttl_in, fail) ==
    LET memory_id == generate_id("stm", nextId)
        ttl_seconds == ShorttermTtl(ttl_in)
        session == IF session_id = None THEN <<>> ELSE session_id
        memory == ShorttermRecord(memory_id, session, ttl_seconds, ctx)
        first == RedisSet(redis, <<memory_id>>, memory, ttl_seconds)
        second == RedisSet(first, ShorttermSessionKey(session, memory_id), memory, ttl_seconds)
        failed == IF fail = "connect" THEN "connect"
                  ELSE IF ~hasContent THEN "none"
                  ELSE IF fail = "set1" THEN "set1"
                  ELSE IF fail = "set2" /\ session # <<>> /\ ~RedisSetRaises(ttl_seconds)
                       THEN "set2" ELSE "none"
        R(status, id, ttl, calls) ==
            Response("stm_add", ctx, None, session_id, status, None, <<>>, id, ttl, calls,
                     Request(ttl_in, hasContent, failed))
    IN  /\ UNCHANGED kvOthers
        /\ nextId < MaxWrites
        /\ IF fail = "connect"
           THEN /\ resp' = R(500, "", Absent, <<"connect">>)
                /\ UNCHANGED kvVars
           ELSE IF ~hasContent
           THEN /\ resp' = R(400, "", Absent, <<"connect">>)
                /\ UNCHANGED kvVars
           ELSE IF fail = "set1" \/ RedisSetRaises(ttl_seconds)
           THEN /\ resp' = R(500, "", Absent, <<"connect", "set">>)
                /\ nextId' = nextId + 1
                /\ UNCHANGED redis
           ELSE IF session = <<>>
           THEN /\ resp' = R(201, memory_id, ttl_seconds, <<"connect", "set">>)
                /\ nextId' = nextId + 1
                /\ redis' = first
           ELSE IF fail = "set2"
           THEN /\ resp' = R(500, "", Absent, <<"connect", "set", "set">>)
                /\ nextId' = nextId + 1
                /\ redis' = first
           ELSE /\ resp' = R(201, memory_id, ttl_seconds, <<"connect", "set", "set">>)
                /\ nextId' = nextId + 1
                /\ redis' = second

\* lambda_handler GET -> ShorttermMemoryHandler.get_memory with memory_id:
\* one GET of the key the caller names.
ShorttermGetById(ctx, memory_id, fail) ==
    LET R(status, items, calls) ==
            Response("stm_get_id", ctx, None, memory_id, status, None, items, "", Absent, calls,
                     Request(Absent, TRUE, fail))
    IN  /\ UNCHANGED kvOthers
        /\ UNCHANGED kvVars
        /\ IF fail = "connect"
           THEN resp' = R(500, <<>>, <<"connect">>)
           ELSE IF fail = "none" /\ RedisHas(redis, memory_id)
           THEN resp' = R(200, <<redis[memory_id].val>>, <<"connect", "get">>)
           ELSE resp' = R(200, <<>>, <<"connect", "get">>)

\* Every element of the fetched list, the None ones as well
AllFetched(memories) ==
    [i \in DOMAIN memories |-> IF memories[i].found THEN memories[i].dict ELSE memories[i]]

\* results = [m for m in memories if m is not None]
PresentRecords(memories) ==
    [i \in DOMAIN SelectSeq(memories, LAMBDA m : m.found) |->
        SelectSeq(memories, LAMBDA m : m.found)[i].dict]

\* The keys that may be gone when the values are fetched: none, or one of the
\* scanned keys, whose TTL ran out after the scan.  When the fetch itself
\* fails the answer does not depend on them, and they expire on their own.
ExpiredSince(store, matching, fail) ==
    IF fail # "none" THEN {{}}
    ELSE {{}} \cup { {k} : k \in { m \in matching : store[m].ttl # NoExpiry } }

\* get_memory with session_id and no memory_id: scan_keys, then
\* get_multiple(keys[:limit]), the records that are not None.  Redis runs on
\* between the two calls.
ShorttermGetBySession(ctx, session_id, limit, fail) ==
    LET matching == RedisScanKeys(redis, ShorttermPattern(session_id))
        \* the body of a 200 also holds count, len(results), and the limit of the query
        R(status, items, calls) ==
            Response("stm_get_session", ctx, None, session_id, status, None, items, "", Absent, calls,
                     Request(Absent, TRUE, IF fail = "mget" /\ matching = {} THEN "none" ELSE fail))
                @@ [count |-> Len(items), limit |-> limit]
    IN  /\ UNCHANGED kvOthers
        /\ UNCHANGED nextId
        /\ IF fail = "connect"
           THEN resp' = R(500, <<>>, <<"connect">>) @@ [expired |-> {}] /\ UNCHANGED redis
           ELSE IF fail = "scan" \/ matching = {}
           THEN resp' = R(200, <<>>, <<"connect", "scan">>) @@ [expired |-> {}] /\ UNCHANGED redis
           ELSE \E keys \in Orders(matching), expired \in ExpiredSince(redis, matching, fail) :
                   LET store == [k \in DOMAIN redis \ expired |-> redis[k]]
                       memories == RedisGetMultiple(store, Prefix(keys, limit))
                       results == PresentRecords(memories)
                   IN  /\ redis' = store
                       /\ resp' = R(200, results, <<"connect", "scan", "mget">>)
                                      @@ [expired |-> expired]

\* lambda_handler GET with neither parameter
ShorttermGetNothing(ctx, fail) ==
    /\ UNCHANGED kvVars
    /\ UNCHANGED kvOthers
    /\ resp' = Response("stm_get_none", ctx, None, None, IF fail = "connect" THEN 500 ELSE 400, None,
                        <<>>, "", Absent, <<"connect">>, Request(Absent, FALSE, fail))

(***************************************************************************)
(* handlers/working_handler.py                                             *)
(***************************************************************************)
\* ttl_seconds=memory_data.ttl_seconds or 3600
WorkingDefaultTtl == 3600

\* The ttl_seconds of the WorkingMemoryBase: memory_data.ttl_seconds or 3600
WorkingTtl(ttl_in) == IF ttl_in = Absent \/ ttl_in = 0 THEN WorkingDefaultTtl ELSE ttl_in

WorkingKey(tenant_id, session_id, memory_id) ==
    <<"tenant:">> \o tenant_id \o <<":session:">> \o session_id \o <<":memory:", memory_id>>

WorkingPattern(tenant_id, session_id) ==
    IF session_id # None
    THEN <<"tenant:">> \o tenant_id \o <<":session:">> \o session_id \o <<":memory:", "*">>
    ELSE <<"tenant:">> \o tenant_id \o <<":session:", "*", ":memory:", "*">>

\* tenant_id = tenant_id or "default_tenant"
ResolveWorkingTenant(tenant_id) == IF tenant_id = None THEN DefaultTenant ELSE tenant_id

\* WorkingMemoryBase(...).dict().  The tenant is in the key only: tenant_id
\* is history, the tenant of the key add_memory stored the record under.
WorkingRecord(memory_id, session_id, ttl_seconds, tenant_id) ==
    [tier |-> "working", memory_id |-> memory_id, context |-> session_id,
     ttl_seconds |-> ttl_seconds, tenant_id |-> tenant_id]

\* lambda_handler POST -> WorkingMemoryHandler.add_memory.  tenant_id is the
\* tenant_id of the body; the handler reads no header.
WorkingAdd(ctx, tenant_id, session_id, hasData, ttl_in, fail) ==
    LET tenant == ResolveWorkingTenant(tenant_id)
        memory_id == generate_id("wm", nextId)
        ttl_seconds == WorkingTtl(ttl_in)
        redis_key == WorkingKey(tenant, session_id, memory_id)
        memory == WorkingRecord(memory_id, session_id, ttl_seconds, tenant)
        R(status, id, ttl, calls) ==
            Response("wm_add", ctx, tenant_id, session_id, status, tenant, <<>>, id, ttl, calls,
                     Request(ttl_in, session_id # None /\ hasData,
                             IF fail = "connect" \/ (session_id # None /\ hasData) THEN fail
                             ELSE "none"))
    IN  /\ UNCHANGED kvOthers
        /\ nextId < MaxWrites
        /\ IF fail = "connect"
           THEN /\ resp' = R(500, "", Absent, <<"connect">>)
                /\ UNCHANGED kvVars
           ELSE IF session_id = None \/ ~hasData
           THEN /\ resp' = R(400, "", Absent, <<"connect">>)
                /\ UNCHANGED kvVars
           ELSE IF fail = "set1" \/ RedisSetRaises(ttl_seconds)
           THEN /\ resp' = R(500, "", Absent, <<"connect", "set">>)
                /\ nextId' = nextId + 1
                /\ UNCHANGED redis
           ELSE /\ resp' = R(201, memory_id, ttl_seconds, <<"connect", "set">>)
                /\ nextId' = nextId + 1
                /\ redis' = RedisSet(redis, redis_key, memory, ttl_seconds)

\* get_memories with a KEYS call that lists the matching keys and a loop
\* that reads memory_id: the records of up to limit matching keys.
get_memories_listed(store, tenant_id, session_id, limit) ==
    { [raised |-> FALSE, memories |-> [i \in DOMAIN keys |-> store[keys[i]].val]] :
        keys \in { Prefix(o, limit) :
                     o \in Orders(RedisScanKeys(store, WorkingPattern(tenant_id, session_id))) } }

\* WorkingMemoryHandler.get_memories: what the call can end in.  The loop
\* runs over self.redis.keys(pattern)[:limit]; a key that holds data ends in
\* mem.id, an attribute WorkingMemoryBase does not have (AttributeError).
get_memories(store, tenant_id, session_id, limit) ==
    { IF \E i \in DOMAIN keys : RedisHas(store, keys[i])
      THEN [raised |-> TRUE, memories |-> <<>>]
      ELSE [raised |-> FALSE, memories |-> <<>>] :
        keys \in { Prefix(o, limit) :
                     o \in Orders(RedisKeys(store, WorkingPattern(tenant_id, session_id))) } }

\* lambda_handler GET -> get_memories.  tenant_id is the query parameter.
WorkingGet(ctx, tenant_id, session_id, limit, fail) ==
    LET tenant == ResolveWorkingTenant(tenant_id)
        R(status, items, calls) ==
            Response("wm_get", ctx, tenant_id, session_id, status, tenant, items, "", Absent, calls,
                     Request(Absent, TRUE, fail))
    IN  /\ UNCHANGED kvOthers
        /\ UNCHANGED kvVars
        /\ IF fail = "connect"
           THEN resp' = R(500, <<>>, <<"connect">>)
           ELSE \E out \in get_memories(redis, tenant, session_id, limit) :
                   resp' = IF out.raised THEN R(500, <<>>, <<"connect", "keys", "get">>)
                           ELSE R(200, out.memories, <<"connect", "keys">>)

\* lambda_handler DELETE -> clear_memory: DEL of the one key
WorkingClear(ctx, tenant_id, session_id, memory_id, fail) ==
    LET tenant == ResolveWorkingTenant(tenant_id)
        complete == memory_id # "" /\ session_id # None
        R(status, calls) ==
            Response("wm_clear", ctx, tenant_id, session_id, status, tenant, <<>>, "", Absent, calls,
                     Request(Absent, complete,
                             IF fail = "connect" \/ complete THEN fail ELSE "none"))
    IN  /\ UNCHANGED kvOthers
        /\ UNCHANGED nextId
        /\ IF fail = "connect"
           THEN /\ resp' = R(500, <<"connect">>)
                /\ UNCHANGED redis
           ELSE IF memory_id = "" \/ session_id = None
           THEN /\ resp' = R(400, <<"connect">>)
                /\ UNCHANGED redis
           ELSE /\ resp' = R(200, <<"connect", "delete">>)
                /\ redis' = IF fail = "delete" THEN redis
                            ELSE RedisDelete(redis, WorkingKey(tenant, session_id, memory_id))

\* Redis removes a key whose expiry has passed.
RedisExpire(key) ==
    /\ key \in DOMAIN redis
    /\ redis[key].ttl # NoExpiry
    /\ redis' = RedisDelete(redis, key)
    /\ UNCHANGED <<nextId, resp>>
    /\ UNCHANGED kvOthers

(***************************************************************************)
(* services/dynamodb.py: DynamoDBAdapter over a table, as a list of items  *)
(* in the order a query or scan returns them.  put_item replaces the item  *)
(* that has the same primary key.                                          *)
(***************************************************************************)
SameKey(x, y, key_schema) == \A a \in key_schema : x[a] = y[a]

TablePut(table, item, key_schema) ==
    IF \E i \in DOMAIN table : SameKey(table[i], item, key_schema)
    THEN [i \in DOMAIN table |-> IF SameKey(table[i], item, key_schema) THEN item ELSE table[i]]
    ELSE Append(table, item)

(***************************************************************************)
(* handlers/procedural_handler.py                                          *)
(***************************************************************************)
\* The table's primary key: get_item({"procedure_id": procedure_id})
ProcKeySchema == {"procedure_id"}

\* The item of add_procedure: procedure_id, name, steps, metadata.  writer is
\* history, the tenant of the requester, which the handler never receives.
ProcItem(procedure_id, writer) == [tier |-> "procedural", procedure_id |-> procedure_id,
                                   writer |-> writer]

\* lambda_handler POST -> add_procedure.  body: none, nofields (no name or no
\* steps) or ok.
ProcAdd(ctx, body, fail) ==
    LET procedure_id == generate_id("proc", nextId)
        R(status, items, id, calls) ==
            Response("proc_add", ctx, None, None, status, None, items, id, Absent, calls,
                     Request(Absent, body = "ok", IF body = "ok" THEN fail ELSE "none"))
    IN  /\ nextId < MaxWrites
        /\ UNCHANGED <<redis, epiIndex, s3, ltmTable, semIndex, clock, rk, call>>
        /\ IF body = "none"
           THEN /\ resp' = R(400, <<>>, "", <<>>)
                /\ UNCHANGED <<nextId, procTable>>
           ELSE IF body = "nofields"
           THEN /\ resp' = R(422, <<>>, "", <<>>)
                /\ UNCHANGED <<nextId, procTable>>
           ELSE IF fail = "put"
           THEN /\ resp' = R(500, <<>>, "", <<"put_item">>)
                /\ nextId' = nextId + 1
                /\ UNCHANGED procTable
           ELSE /\ resp' = R(201, <<ProcItem(procedure_id, ctx)>>, procedure_id, <<"put_item">>)
                /\ nextId' = nextId + 1
                /\ procTable' = TablePut(procTable, ProcItem(procedure_id, ctx), ProcKeySchema)

\* ProceduralMemoryHandler.get_procedure: get_item by procedure_id, None when
\* there is no item or the call fails.
get_procedure(table, procedure_id, fail) ==
    IF fail = "get" THEN <<>>
    ELSE SelectSeq(table, LAMBDA p : p.procedure_id = procedure_id)

\* lambda_handler GET /procedural_memory?procedure_id=...
ProcGet(ctx, procedure_id, fail) ==
    LET procedure == get_procedure(procTable, procedure_id, fail)
        R(status, items, calls) ==
            Response("proc_get", ctx, None, <<procedure_id>>, status, None, items, "", Absent, calls,
                     Request(Absent, procedure_id # "", IF procedure_id # "" THEN fail ELSE "none"))
    IN  /\ UNCHANGED stores
        /\ IF procedure_id = ""
           THEN resp' = R(400, <<>>, <<>>)
           ELSE IF procedure = <<>>
           THEN resp' = R(404, <<>>, <<"get_item">>)
           ELSE resp' = R(200, procedure, <<"get_item">>)

\* app.py GET /memories/procedural -> get_procedure.  The HTTPException(404)
\* of a missing procedure is raised inside the try, "except Exception"
\* catches it and raises HTTPException(500).
AppGetProcedure(ctx, procedure_id, fail) ==
    LET procedure == get_procedure(procTable, procedure_id, fail)
        R(status, items) ==
            Response("app_proc_get", ctx, None, <<procedure_id>>, status, None, items, "", Absent,
                     <<"get_item">>, Request(Absent, TRUE, fail))
    IN  /\ UNCHANGED stores
        /\ IF procedure = <<>>
           THEN resp' = R(500, <<>>)
           ELSE resp' = R(200, procedure)

\* lambda_handler GET /procedural_memory/list -> list_procedures: the first
\* limit items of a scan, in the scan's order (no item has a success_rate,
\* so the stable sort keeps it), none of them when min_success_rate is
\* positive.
ProcList(ctx, limit, min_positive, fail) ==
    LET R(items) == Response("proc_list", ctx, None, None, 200, None, items, "", Absent, <<"scan">>,
                             Request(Absent, TRUE, fail))
    IN  /\ UNCHANGED stores
        /\ IF fail = "scan" \/ min_positive
           THEN resp' = R(<<>>)
           ELSE \E o \in Orders(DOMAIN procTable) :
                   resp' = R([i \in DOMAIN Prefix(o, limit) |-> procTable[o[i]]])

(***************************************************************************)
(* handlers/longterm_handler.py                                            *)
(***************************************************************************)
EntityIds == {"e1", "e2"}
Summaries == {"v1", "v2"}

\* tenant_id = event.get("headers", {}).get("X-Tenant-ID", "default_tenant")
ResolveHeaderTenant(header) == IF header = None THEN DefaultTenant ELSE header

\* The table's primary key: long-term records key on entity_id.
LtmKeySchema == {"entity_id"}

\* The item of update_memory: id, entity_id, summary, metadata, timestamp,
\* tenant_id.
LtmItem(memory_id, entity_id, summary, tenant_id) ==
    [tier |-> "longterm", id |-> memory_id, entity_id |-> entity_id, summary |-> summary,
     tenant_id |-> tenant_id]

\* lambda_handler POST -> update_memory.  header is the X-Tenant-ID header,
\* body_tenant the tenant_id of the body, which nothing reads; body_id the
\* id of the body.
LtmUpdate(header, body_tenant, body, entity_id, summary, body_id, fail) ==
    LET tenant == ResolveHeaderTenant(header)
        memory_id == IF body_id = "" THEN generate_id("ltm", nextId) ELSE body_id
        item == LtmItem(memory_id, entity_id, summary, tenant)
        R(status, items, id, calls) ==
            Response("ltm_update", header, header, <<entity_id>>, status, tenant, items, id, Absent, calls,
                     Request(Absent, body = "ok", IF body = "ok" THEN fail ELSE "none"))
    IN  /\ nextId < MaxWrites
        /\ UNCHANGED <<redis, procTable, epiIndex, s3, semIndex, clock, rk, call>>
        /\ IF body # "ok"
           THEN /\ resp' = R(400, <<>>, "", <<>>)
                /\ UNCHANGED <<nextId, ltmTable>>
           ELSE IF fail = "put"
           THEN /\ resp' = R(500, <<>>, "", <<"put_item">>)
                /\ nextId' = nextId + 1
                /\ UNCHANGED ltmTable
           ELSE /\ resp' = R(201, <<item>>, memory_id, <<"put_item">>)
                /\ nextId' = nextId + 1
                /\ ltmTable' = TablePut(ltmTable, item, LtmKeySchema)

\* LongTermMemoryHandler.get_memory: the items of the entity that the filter
\* on tenant_id keeps, [] when the query fails; the first one is returned.
LtmGetMemory(table, tenant_id, entity_id, fail) ==
    IF fail = "query" THEN <<>>
    ELSE Prefix(SelectSeq(table, LAMBDA r : r.entity_id = entity_id /\ r.tenant_id = tenant_id), 1)

\* lambda_handler GET
LtmGet(header, entity_id, fail) ==
    LET tenant == ResolveHeaderTenant(header)
        memory == LtmGetMemory(ltmTable, tenant, entity_id, fail)
        R(status, items, calls) ==
            Response("ltm_get", header, header, <<entity_id>>, status, tenant, items, "", Absent, calls,
                     Request(Absent, entity_id # "", IF entity_id # "" THEN fail ELSE "none"))
    IN  /\ UNCHANGED stores
        /\ IF entity_id = ""
           THEN resp' = R(400, <<>>, <<>>)
           ELSE IF memory = <<>>
           THEN resp' = R(404, <<>>, <<"query">>)
           ELSE resp' = R(200, memory, <<"query">>)

\* LongTermMemoryHandler.query_memories(user_id, limit): a query on the
\* attribute user_id, which no item of update_memory has, and no filter on
\* the tenant.
LtmQueryMemories(table, user_id, limit, fail) ==
    IF fail = "query" THEN <<>>
    ELSE Prefix(SelectSeq(table, LAMBDA r : "user_id" \in DOMAIN r /\ r["user_id"] = user_id), limit)

LtmQuery(header, user_id, limit, fail) ==
    LET tenant == ResolveHeaderTenant(header)
    IN  /\ UNCHANGED stores
        /\ resp' = Response("ltm_query", header, header, <<user_id>>, 200, tenant,
                            LtmQueryMemories(ltmTable, user_id, limit, fail), "", Absent,
                            <<"query">>, Request(Absent, TRUE, fail))

(***************************************************************************)
(* handlers/episodic_handler.py                                            *)
(***************************************************************************)
MaxClock == 1
TurnNumbers == {1, 2}
EpisodicSessions == {<<"s1">>, <<"s2">>}

\* memory_id = f"epi_{int(datetime.utcnow().timestamp())}": the second of the call
EpisodicId(second) == "epi_" \o ToString(second)

\* f"sessions/{session_id}/{timestamp.strftime('%Y/%m/%d')}/{memory_id}.json";
\* the day is the day of the second that memory_id names.
EpisodicS3Key(session_id, memory_id) == <<"sessions/">> \o session_id \o <<"/", memory_id, ".json">>

\* The index table's primary key: the session and the timestamp of the item.
EpiKeySchema == {"session_id", "timestamp"}

\* The index item of add_memory: session_id, timestamp, memory_id,
\* turn_number, s3_key.  timestamp is the second and the order of the call
\* within it.  writer is history, the tenant_id of the request, which goes
\* into the S3 object only.
EpisodicItem(session_id, timestamp, memory_id, turn_number, s3_key, writer) ==
    [tier |-> "episodic", session_id |-> session_id, timestamp |-> timestamp,
     memory_id |-> memory_id, turn_number |-> turn_number, s3_key |-> s3_key,
     writer |-> writer]

\* memory.to_dict(): EpisodicMemoryCreate keeps tenant_id, session_id,
\* turn_number and drops id, content and timestamp.
EpisodicObject(tenant_id, session_id, turn_number) ==
    [tenant_id |-> tenant_id, session_id |-> session_id, turn_number |-> turn_number]

\* S3Adapter.put_object: False when the call fails, which add_memory ignores
S3Put(bucket, key, object, fail) ==
    IF fail = "s3" \/ fail = "both" THEN bucket
    ELSE [k \in DOMAIN bucket \cup {key} |-> IF k = key THEN object ELSE bucket[k]]

\* lambda_handler POST -> EpisodicMemoryHandler.add_memory.  hasTenant: the
\* body carries tenant_id, the tenant of the requester; hasFields: it carries
\* the other required fields.  The results of put_object and put_item are not
\* looked at.
EpisodicAdd(ctx, hasTenant, hasFields, session_id, turn_number, fail) ==
    LET memory_id == EpisodicId(clock)
        s3_key == EpisodicS3Key(session_id, memory_id)
        item == EpisodicItem(session_id, <<clock, nextId>>, memory_id, turn_number, s3_key, ctx)
        calls == <<"put_object", "put_item">>
        complete == hasTenant /\ hasFields
        \* the body of the 201: memory_id, session_id, turn_number, s3_key
        result == [memory_id |-> memory_id, session_id |-> session_id,
                   turn_number |-> turn_number, s3_key |-> s3_key]
        R(status, id, given, made) ==
            Response("epi_add", ctx, given, session_id, status, given,
                     IF status = 201 THEN <<result>> ELSE <<>>, id, Absent, made,
                     Request(Absent, complete, IF complete THEN fail ELSE "none"))
    IN  /\ nextId < MaxWrites
        /\ UNCHANGED <<redis, procTable, ltmTable, semIndex, clock, rk, call>>
        /\ IF ~hasTenant \/ ~hasFields
           THEN /\ resp' = R(400, "", IF hasTenant THEN ctx ELSE None, <<>>)
                /\ UNCHANGED <<epiIndex, s3, nextId>>
           ELSE /\ resp' = R(201, memory_id, ctx, calls)
                /\ nextId' = nextId + 1
                /\ s3' = S3Put(s3, s3_key, EpisodicObject(ctx, session_id, turn_number), fail)
                /\ epiIndex' = IF fail = "index" \/ fail = "both" THEN epiIndex
                               ELSE TablePut(epiIndex, item, EpiKeySchema)

\* S3Adapter.get_object: deserialize_memory gets the body as a str, str has
\* no items(), the except branch returns None; None as well when the key is
\* missing.
S3GetObject(bucket, key) == None

\* EpisodicMemoryHandler.query_memories: the first limit index items of the
\* session, oldest first, [] when the query fails; with include_content each
\* is content or item.
EpisodicQueryMemories(index, bucket, session_id, limit, include_content, fail) ==
    LET results == IF fail = "query" THEN <<>>
                   ELSE Prefix(SelectSeq(index, LAMBDA r : r.session_id = session_id), limit)
    IN  IF include_content
        THEN [i \in DOMAIN results |->
                IF S3GetObject(bucket, results[i].s3_key) # None
                THEN S3GetObject(bucket, results[i].s3_key) ELSE results[i]]
        ELSE results

\* lambda_handler GET -> query_memories
EpisodicQuery(ctx, session_id, limit, include_content, fail) ==
    LET R(status, items, calls) ==
            Response("epi_query", ctx, None, session_id, status, None, items, "", Absent, calls,
                     Request(Absent, session_id # None, IF session_id # None THEN fail ELSE "none"))
    IN  /\ UNCHANGED stores
        /\ IF session_id = None
           THEN resp' = R(400, <<>>, <<>>)
           ELSE resp' = R(200,
                          EpisodicQueryMemories(epiIndex, s3, session_id, limit, include_content, fail),
                          IF include_content /\ fail # "query" /\
                             \E i \in DOMAIN epiIndex : epiIndex[i].session_id = session_id
                          THEN <<"query", "get_object">> ELSE <<"query">>)

\* A second passes.
Tick ==
    /\ clock < MaxClock
    /\ clock' = clock + 1
    /\ UNCHANGED <<redis, procTable, epiIndex, s3, ltmTable, semIndex, nextId, resp, rk, call>>

(***************************************************************************)
(* handlers/semantic_handler.py, services/opensearch.py                    *)
(***************************************************************************)
EmbeddingDim == 768

\* The embedding of a body: none, or its type and length
EmbeddingInputs == {<<"none", 0>>, <<"list", 0>>, <<"list", 3>>, <<"list", EmbeddingDim>>,
                    <<"str", EmbeddingDim>>}

\* generate_embedding(text): a list of 768 floats
generate_embedding == <<"list", EmbeddingDim>>

\* A text is a sequence of code points: two of one UTF-8 byte, one of two
\* bytes, and a lone surrogate, which json.loads lets into a str.
MaxTextLen == 3
CodePoints == {97, 98, 233, 55296}
Texts == UNION { [1..n -> CodePoints] : n \in 0..MaxTextLen }

\* The outcome of a call: a value, or the exception it raised
Returned(value) == [raised |-> "", value |-> value]
Raised(exception) == [raised |-> exception, value |-> <<>>]

IsSurrogate(cp) == cp >= 55296 /\ cp <= 57343

\* text.encode(): UTF-8, strict.  A surrogate cannot be encoded.
RECURSIVE Utf8(_)
Utf8(text) ==
    IF text = <<>> THEN <<>>
    ELSE LET cp == Head(text)
             bytes == IF cp < 128 THEN <<cp>>
                      ELSE IF cp < 2048 THEN <<192 + (cp \div 64), 128 + (cp % 64)>>
                      ELSE <<224 + (cp \div 4096), 128 + ((cp \div 64) % 64), 128 + (cp % 64)>>
         IN  bytes \o Utf8(Tail(text))

encode(text) ==
    IF \E i \in DOMAIN text : IsSurrogate(text[i])
    THEN Raised("UnicodeEncodeError") ELSE Returned(Utf8(text))

\* hashlib.md5(bytes).hexdigest(): 32 hexadecimal digits, a function of the
\* bytes.  The digest of the library is stood for by a rolling sum that is
\* spread over the 32 places.
DigestLen == 32
RECURSIVE Mix(_, _)
Mix(acc, bytes) == IF bytes = <<>> THEN acc ELSE Mix((acc * 31 + Head(bytes)) % 65521, Tail(bytes))

md5_hexdigest(bytes) == [j \in 1..DigestLen |-> ((Mix(7, bytes) + j) * (2 * j + 1)) % 16]

\* int(h[i % 32], 16) / 15.0 - 1.0, in fifteenths: the same float division and
\* subtraction in both implementations
Component(digit) == digit - 15

\* The list comprehension with the index one off
EmbeddingShifted(h) == [i \in 1..EmbeddingDim |-> Component(h[(i % DigestLen) + 1])]

\* [... h[i % 32] ... for i in range(768)]
EmbeddingOfDigest(h) == [i \in 1..EmbeddingDim |-> Component(h[((i - 1) % DigestLen) + 1])]

\* semantic_handler.generate_embedding(text): float(...) of each component,
\* which is a float already
SemanticGenerateEmbedding(text) ==
    IF encode(text).raised # "" THEN encode(text)
    ELSE Returned(EmbeddingOfDigest(md5_hexdigest(encode(text).value)))

\* The implementation of services/opensearch.py reading the digest one place off
OpenSearchEmbeddingShifted(text) ==
    IF encode(text).raised # "" THEN encode(text)
    ELSE Returned(EmbeddingShifted(md5_hexdigest(encode(text).value)))

\* services/opensearch.generate_embedding(text)
OpenSearchGenerateEmbedding(text) ==
    IF encode(text).raised # "" THEN encode(text)
    ELSE Returned(EmbeddingOfDigest(md5_hexdigest(encode(text).value)))

\* embedding = body.get("embedding") or generate_embedding(content)
ResolveEmbedding(embedding) == IF embedding[2] = 0 THEN generate_embedding ELSE embedding

\* body.get("tenant_id", "default_tenant")
ResolveSemanticTenant(tenant_id) == IF tenant_id = None THEN DefaultTenant ELSE tenant_id

\* The document of handle_add_memory: id, embedding, metadata.tenant_id
SemanticDocument(memory_id, embedding, tenant_id) ==
    [tier |-> "semantic", id |-> memory_id, embedding |-> embedding, tenant_id |-> tenant_id]

\* lambda_handler POST -> handle_add_memory.  The adapter's constructor asks
\* the cluster whether the index exists (connect).  tenant_id is the
\* tenant_id of the body; the response records the embedding of the body as
\* the argument of the request.
SemanticAdd(ctx, tenant_id, hasContent, embedding_in, fail) ==
    LET tenant == ResolveSemanticTenant(tenant_id)
        embedding == ResolveEmbedding(embedding_in)
        memory_id == generate_id("sem", nextId)
        R(status, id, calls) ==
            Response("sem_add", ctx, tenant_id, embedding_in, status, tenant, <<>>, id, Absent, calls,
                     Request(Absent, hasContent,
                             IF fail = "index" /\ (~hasContent \/ embedding[1] # "list" \/
                                                   embedding[2] # EmbeddingDim)
                             THEN "none" ELSE fail))
    IN  /\ nextId < MaxWrites
        /\ UNCHANGED <<redis, procTable, epiIndex, s3, ltmTable, clock, rk, call>>
        /\ IF fail = "connect"
           THEN /\ resp' = R(500, "", <<"connect">>)
                /\ UNCHANGED <<semIndex, nextId>>
           ELSE IF ~hasContent \/ embedding[1] # "list" \/ embedding[2] # EmbeddingDim
           THEN /\ resp' = R(400, "", <<"connect">>)
                /\ UNCHANGED <<semIndex, nextId>>
           ELSE IF fail = "index"
           THEN /\ resp' = R(500, "", <<"connect", "index">>)
                /\ nextId' = nextId + 1
                /\ UNCHANGED semIndex
           ELSE /\ resp' = R(201, memory_id, <<"connect", "index">>)
                /\ nextId' = nextId + 1
                /\ semIndex' = [d \in DOMAIN semIndex \cup {memory_id} |->
                                  IF d = memory_id
                                  THEN SemanticDocument(memory_id, embedding, tenant)
                                  ELSE semIndex[d]]

\* lambda_handler GET -> handle_query_memory.  OpenSearchAdapter has
\* search_vector and search_text; search_by_vector and search_by_text are
\* attributes it does not have, and lambda_handler turns the AttributeError
\* into a 500.
SemanticQuery(ctx, tenant_id, hasQuery, search_type, fail) ==
    LET R(status) ==
            Response("sem_query", ctx, tenant_id, None, status, tenant_id, <<>>, "", Absent,
                     <<"connect">>, Request(Absent, hasQuery, fail))
    IN  /\ UNCHANGED stores
        /\ IF fail = "connect" THEN resp' = R(500)
           ELSE IF ~hasQuery THEN resp' = R(400)
           ELSE IF search_type \in {"vector", "text"} THEN resp' = R(500)
           ELSE resp' = R(400)


(***************************************************************************)
(* utils.py: calculate_relevance_score                                     *)
(*                                                                         *)
(* A number is a Python float or int.  Floats keep what matters of their   *)
(* range: a number is c * 10^(200 * sc), a float has sc in -1..1, a         *)
(* product below that range underflows to 0.0 and one above it is inf, and *)
(* a sum of two floats of different sc is the larger one.  An int is exact *)
(* and unbounded, and raises OverflowError when it is converted to a float *)
(* it does not fit.  An exception is a number whose ty is its name: it     *)
(* ends the call, so every later operation passes it on.                   *)
(***************************************************************************)
MaxVecLen == 2

PyFloat(sc, c) == [ty |-> "float", sc |-> sc, c |-> c]
PyInt(sc, c) == [ty |-> "int", sc |-> sc, c |-> c]
Inf(sign) == [ty |-> "inf", sc |-> 0, c |-> sign]
NaN == [ty |-> "nan", sc |-> 0, c |-> 0]
Exception(name) == [ty |-> name, sc |-> 0, c |-> 0]

IsException(x) == x.ty \in {"OverflowError", "ZeroDivisionError"}
Sign(c) == IF c < 0 THEN -1 ELSE 1

\* 0.0, 1.0, -1.0, 1e-200, 1e200 and the int 10**200
Components == {PyFloat(0, 0), PyFloat(0, 1), PyFloat(0, -1), PyFloat(-1, 1), PyFloat(1, 1), PyInt(1, 1)}
Vectors == UNION { [1..n -> Components] : n \in 0..MaxVecLen }

\* float(x) as the arithmetic applies it to an int operand
ToFloat(x) ==
    IF x.ty # "int" THEN x
    ELSE IF x.c = 0 THEN PyFloat(0, 0)
    ELSE IF x.sc > 1 THEN Exception("OverflowError")
    ELSE PyFloat(x.sc, x.c)

\* a * b of two floats
FloatMul(x, y) ==
    IF x.ty = "nan" \/ y.ty = "nan" THEN NaN
    ELSE IF x.ty = "inf" \/ y.ty = "inf"
    THEN IF x.c = 0 \/ y.c = 0 THEN NaN ELSE Inf(Sign(x.c) * Sign(y.c))
    ELSE IF x.c * y.c = 0 \/ x.sc + y.sc < -1 THEN PyFloat(0, 0)
    ELSE IF x.sc + y.sc > 1 THEN Inf(Sign(x.c * y.c))
    ELSE PyFloat(x.sc + y.sc, x.c * y.c)

\* a + b of two floats
FloatAdd(x, y) ==
    IF x.ty = "nan" \/ y.ty = "nan" THEN NaN
    ELSE IF x.ty = "inf" /\ y.ty = "inf" THEN (IF x.c = y.c THEN x ELSE NaN)
    ELSE IF x.ty = "inf" THEN x
    ELSE IF y.ty = "inf" THEN y
    ELSE IF x.c = 0 THEN y
    ELSE IF y.c = 0 THEN x
    ELSE IF x.sc = y.sc THEN (IF x.c + y.c = 0 THEN PyFloat(0, 0) ELSE PyFloat(x.sc, x.c + y.c))
    ELSE IF x.sc > y.sc THEN x ELSE y

\* a * b: exact on two ints, the float product otherwise
Mul(x, y) ==
    IF IsException(x) THEN x
    ELSE IF IsException(y) THEN y
    ELSE IF x.ty = "int" /\ y.ty = "int"
    THEN (IF x.c * y.c = 0 THEN PyInt(0, 0) ELSE PyInt(x.sc + y.sc, x.c * y.c))
    ELSE IF IsException(ToFloat(x)) THEN ToFloat(x)
    ELSE IF IsException(ToFloat(y)) THEN ToFloat(y)
    ELSE FloatMul(ToFloat(x), ToFloat(y))

\* a + b: exact on two ints (the ints of a call are 0 or of one sc), the
\* float sum otherwise
Add(x, y) ==
    IF IsException(x) THEN x
    ELSE IF IsException(y) THEN y
    ELSE IF x.ty = "int" /\ y.ty = "int"
    THEN CASE x.c = 0 -> y
           [] y.c = 0 -> x
           [] x.sc = y.sc -> (IF x.c + y.c = 0 THEN PyInt(0, 0) ELSE PyInt(x.sc, x.c + y.c))
    ELSE IF IsException(ToFloat(x)) THEN ToFloat(x)
    ELSE IF IsException(ToFloat(y)) THEN ToFloat(y)
    ELSE FloatAdd(ToFloat(x), ToFloat(y))

\* sum(...): from the int 0, left to right
RECURSIVE SumFrom(_, _)
SumFrom(acc, terms) == IF terms = <<>> THEN acc ELSE SumFrom(Add(acc, Head(terms)), Tail(terms))

Sum(terms) == SumFrom(PyInt(0, 0), terms)

\* zip(query_embedding, doc_embedding): as long as the shorter one
Zip(a, b) == [i \in 1..(IF Len(a) < Len(b) THEN Len(a) ELSE Len(b)) |-> <<a[i], b[i]>>]

DotProduct(a, b) == Sum([i \in DOMAIN Zip(a, b) |-> Mul(Zip(a, b)[i][1], Zip(a, b)[i][2])])

SumOfSquares(a) == Sum([i \in DOMAIN a |-> Mul(a[i], a[i])])

\* x ** 0.5, kept as the number under the root: an int is converted first, and
\* the root of a float is 0.0, inf or nan exactly when the float is
Root(x) == IF IsException(x) THEN x ELSE ToFloat(x)

\* magnitude == 0
IsZero(root) == root.ty = "float" /\ root.c = 0

\* A float that is a quotient: num over the root of rad
Quotient(num, rad) == [num |-> num, rad |-> rad]
Zero == Quotient(PyFloat(0, 0), PyFloat(0, 1))

\* dot_product / (magnitude_a * magnitude_b): dividing by 0.0 raises
Divide(dot_product, magnitude_a, magnitude_b) ==
    LET product == FloatMul(magnitude_a, magnitude_b)
    IN  IF IsException(ToFloat(dot_product)) THEN Raised(ToFloat(dot_product).ty)
        ELSE IF IsZero(product) THEN Raised("ZeroDivisionError")
        ELSE Returned(Quotient(ToFloat(dot_product), product))

\* The function with the guard asking for both magnitudes to be zero
RelevanceGuardBoth(query_embedding, doc_embedding) ==
    LET dot_product == DotProduct(query_embedding, doc_embedding)
        magnitude_a == Root(SumOfSquares(query_embedding))
        magnitude_b == Root(SumOfSquares(doc_embedding))
    IN  IF query_embedding = <<>> \/ doc_embedding = <<>> THEN Returned(Zero)
        ELSE IF IsException(dot_product) THEN Raised(dot_product.ty)
        ELSE IF IsException(magnitude_a) THEN Raised(magnitude_a.ty)
        ELSE IF IsException(magnitude_b) THEN Raised(magnitude_b.ty)
        ELSE IF IsZero(magnitude_a) /\ IsZero(magnitude_b) THEN Returned(Zero)
        ELSE Divide(dot_product, magnitude_a, magnitude_b)

\* calculate_relevance_score(query_embedding, doc_embedding)
calculate_relevance_score(query_embedding, doc_embedding) ==
    LET dot_product == DotProduct(query_embedding, doc_embedding)
        magnitude_a == Root(SumOfSquares(query_embedding))
        magnitude_b == Root(SumOfSquares(doc_embedding))
    IN  IF query_embedding = <<>> \/ doc_embedding = <<>> THEN Returned(Zero)
        ELSE IF IsException(dot_product) THEN Raised(dot_product.ty)
        ELSE IF IsException(magnitude_a) THEN Raised(magnitude_a.ty)
        ELSE IF IsException(magnitude_b) THEN Raised(magnitude_b.ty)
        ELSE IF IsZero(magnitude_a) \/ IsZero(magnitude_b) THEN Returned(Zero)
        ELSE Divide(dot_product, magnitude_a, magnitude_b)

(***************************************************************************)
(* tenant_auth.py                                                          *)
(*                                                                         *)
(* An operation such as 'memory:read' and a permission such as             *)
(* 'memory:read:doc' are strings; here each is the sequence of its parts   *)
(* between the colons, so that f"{operation}:{resource}" is the operation  *)
(* with one more part.  A list that the code only tests with "in" is the    *)
(* set of its elements.                                                    *)
(***************************************************************************)
TenantContext(tenant_id, user_id, permissions, subscription_tier) ==
    [tenant_id |-> tenant_id, user_id |-> user_id, permissions |-> permissions,
     subscription_tier |-> subscription_tier]

\* dict.get(key, default)
DictGet(dict, key, default) == IF key \in DOMAIN dict THEN dict[key] ELSE default

_get_tier_permissions(tier) ==
    CASE tier = "basic" ->
             {<<"memory", "read">>, <<"memory", "write">>, <<"memory", "delete">>,
              <<"retrieval", "query">>}
      [] tier = "premium" ->
             {<<"memory", "read">>, <<"memory", "write">>, <<"memory", "delete">>,
              <<"retrieval", "query">>, <<"retrieval", "advanced">>,
              <<"graph", "query">>, <<"analytics", "basic">>}
      [] tier = "enterprise" ->
             {<<"memory", "*">>, <<"retrieval", "*">>, <<"graph", "*">>,
              <<"analytics", "*">>, <<"admin", "*">>}
      [] OTHER -> {}

\* str(resource) inside the f-string: None prints as 'None'
FormatResource(resource) == IF resource = None THEN "None" ELSE resource[1]

\* An exception inside the try answers False; none is raised by these inputs.
authorize_operation(context, operation, resource) ==
    LET tier_permissions == _get_tier_permissions(context.subscription_tier)
    IN  IF operation \notin tier_permissions
        THEN FALSE
        ELSE IF /\ context.permissions # {}
                /\ (operation \o <<FormatResource(resource)>>) \notin context.permissions
                /\ (operation \o <<"*">>) \notin context.permissions
                /\ <<"*", "*">> \notin context.permissions
        THEN FALSE
        ELSE TRUE

check_rate_limits(context, operation) == TRUE

\* TenantRegistry.get_item: the table is a function from tenant ids to items,
\* or it cannot be read.
_get_tenant_info(tenants, tenant_id) ==
    IF tenants.readable /\ tenant_id \in DOMAIN tenants.items
    THEN Value(tenants.items[tenant_id])
    ELSE NoValue

\* A token is what jwt.decode makes of it: a payload, or InvalidTokenError.
_authenticate_jwt(tenants, token) ==
    IF ~token.valid THEN NoValue
    ELSE LET payload == token.payload
             tenant_id == DictGet(payload, "tenant_id", "")
             user_id == DictGet(payload, "user_id", "")
             tenant_info == _get_tenant_info(tenants, tenant_id)
         IN  IF tenant_id = "" \/ user_id = "" THEN NoValue
             ELSE IF ~tenant_info.found THEN NoValue
             ELSE IF DictGet(tenant_info.dict, "status", "") # "active" THEN NoValue
             ELSE Value(TenantContext(tenant_id, user_id,
                                      DictGet(payload, "permissions", {}),
                                      DictGet(tenant_info.dict, "subscription_tier", "basic")))

\* ApiKeys.get_item: the table is a function from keys to items, or it cannot
\* be read.  datetime.utcnow() is the clock.
_authenticate_api_key(api_keys, tenants, api_key) ==
    IF ~api_keys.readable \/ api_key \notin DOMAIN api_keys.items THEN NoValue
    ELSE LET key_info == api_keys.items[api_key]
             tenant_info == _get_tenant_info(tenants, key_info.tenant_id)
         IN  IF DictGet(key_info, "status", "") # "active" THEN NoValue
             ELSE IF "expires_at" \in DOMAIN key_info /\ key_info.expires_at < clock THEN NoValue
             ELSE IF ~tenant_info.found THEN NoValue
             ELSE IF DictGet(tenant_info.dict, "status", "") # "active" THEN NoValue
             ELSE Value(TenantContext(key_info.tenant_id,
                                      DictGet(key_info, "user_id", "api_user"),
                                      DictGet(key_info, "permissions", {}),
                                      DictGet(tenant_info.dict, "subscription_tier", "basic")))

\* The Authorization header is its words: 'Bearer ' and the token, another
\* scheme, or nothing.
authenticate_request(api_keys, tenants, event) ==
    LET headers == DictGet(event, "headers", <<>>)
        auth_header == DictGet(headers, "Authorization", <<>>)
        api_key == DictGet(headers, "X-API-Key", "")
    IN  IF Len(auth_header) = 2 /\ auth_header[1] = "Bearer"
             THEN _authenticate_jwt(tenants, auth_header[2])
             ELSE IF api_key # "" THEN _authenticate_api_key(api_keys, tenants, api_key)
             ELSE NoValue

(***************************************************************************)
(* utils.py: chunk_text                                                    *)
(*                                                                         *)
(* A text is a sequence of characters, a letter or a space.  The loop is   *)
(* taken one iteration at a time.  A run that ends appends at most one     *)
(* chunk per character, so the loop is followed for MaxChunks iterations.  *)
(***************************************************************************)
MaxChunkSize == 6
MaxChunkLen == 7
MaxChunks == MaxChunkLen + 1
ChunkTexts == UNION { [1..n -> {"a", " "}] : n \in 0..MaxChunkLen }

\* A slice index as Python normalises it for a string of length n
SliceIndex(i, n) == IF i < 0 THEN (IF n + i < 0 THEN 0 ELSE n + i)
                    ELSE IF i > n THEN n ELSE i

\* text[start:end]
Slice(text, start, end) ==
    SubSeq(text, SliceIndex(start, Len(text)) + 1, SliceIndex(end, Len(text)))

\* chunk.rfind(' ')
RFindSpace(chunk) ==
    LET spaces == { i \in 1..Len(chunk) : chunk[i] = " " }
    IN  IF spaces = {} THEN -1
        ELSE (CHOOSE i \in spaces : \A j \in spaces : j <= i) - 1

\* chunk.strip()
Strip(chunk) ==
    LET kept == { i \in 1..Len(chunk) : chunk[i] # " " }
    IN  IF kept = {} THEN <<>>
        ELSE SubSeq(chunk, CHOOSE i \in kept : \A j \in kept : i <= j,
                           CHOOSE i \in kept : \A j \in kept : j <= i)

\* One iteration of the while loop: the chunk appended and the next start
ChunkIteration(text, chunk_size, overlap, start) ==
    LET end == start + chunk_size
        chunk == Slice(text, start, end)
        last_space == RFindSpace(chunk)
        cut == end < Len(text) /\ 10 * last_space > 8 * chunk_size
        end_cut == IF cut THEN start + last_space ELSE end
        chunk_cut == IF cut THEN Slice(chunk, 0, last_space) ELSE chunk
    IN  [chunk |-> Strip(chunk_cut), start |-> end_cut - overlap]

(***************************************************************************)
(* The service: requests arrive one at a time, from any tenant.            *)
(***************************************************************************)
Booleans == {TRUE, FALSE}
MemoryIds(prefix) == { generate_id(prefix, n) : n \in 0..(MaxWrites - 1) }

InitStores ==
    /\ redis = <<>>
    /\ procTable = <<>>
    /\ epiIndex = <<>>
    /\ s3 = <<>>
    /\ ltmTable = <<>>
    /\ semIndex = <<>>
    /\ clock = 0
    /\ nextId = 0
    /\ resp = NoResponse

\* no call of merge_and_rank_results: no handler makes one
RankIdle == [pc |-> "idle", results |-> <<>>, max_results |-> 0,
             relevance_threshold |-> 0, ranked |-> <<>>, reranked |-> <<>>]

\* no call of a pure function: the handlers' own calls are part of their actions
CallIdle == [pc |-> "idle"]

Init == InitStores /\ rk = RankIdle /\ call = CallIdle

NextShortterm ==
    \/ \E ctx \in Tenants, hasContent \in Booleans, session_id \in SessionIds \cup {None},
          ttl_in \in TtlInputs, fail \in {"none", "connect", "set1", "set2"} :
            ShorttermAdd(ctx, hasContent, session_id, ttl_in, fail)
    \/ \E ctx \in Tenants, memory_id \in DOMAIN redis \cup {<<"stm_x">>},
          fail \in {"none", "connect", "get"} :
            ShorttermGetById(ctx, memory_id, fail)
    \/ \E ctx \in Tenants, session_id \in SessionIds, limit \in Limits,
          fail \in {"none", "connect", "scan", "mget"} :
            ShorttermGetBySession(ctx, session_id, limit, fail)
    \/ \E ctx \in Tenants, fail \in {"none", "connect"} : ShorttermGetNothing(ctx, fail)
    \/ \E key \in DOMAIN redis : RedisExpire(key)

SpecShortterm == Init /\ [][NextShortterm]_vars

\* The working handler reads nothing of the requester: one stands for all.
WorkingCallers == {<<"a">>}

NextWorking ==
    \/ \E ctx \in WorkingCallers, tenant_id \in TenantIds \cup {None}, session_id \in SessionIds \cup {None},
          hasData \in Booleans, ttl_in \in TtlInputs, fail \in {"none", "connect", "set1"} :
            WorkingAdd(ctx, tenant_id, session_id, hasData, ttl_in, fail)
    \/ \E ctx \in WorkingCallers, tenant_id \in TenantIds \cup {None}, session_id \in SessionIds \cup {None},
          limit \in Limits, fail \in {"none", "connect"} :
            WorkingGet(ctx, tenant_id, session_id, limit, fail)
    \/ \E ctx \in WorkingCallers, tenant_id \in TenantIds \cup {None}, session_id \in SessionIds \cup {None},
          memory_id \in MemoryIds("wm") \cup {""}, fail \in {"none", "connect", "delete"} :
            WorkingClear(ctx, tenant_id, session_id, memory_id, fail)
    \/ \E key \in DOMAIN redis : RedisExpire(key)

SpecWorking == Init /\ [][NextWorking]_vars

\* Session scans of the short-term tier over what successful writes stored,
\* with and without expiry, while keys expire.  The short-term handler reads
\* nothing of the requester: one stands for all.
ScanCallers == {<<"a">>}

NextScan ==
    \/ \E ctx \in ScanCallers, session_id \in SessionIds, ttl_in \in {Absent, 0} :
            ShorttermAdd(ctx, TRUE, session_id, ttl_in, "none")
    \/ \E ctx \in ScanCallers, session_id \in SessionIds, limit \in Limits,
          fail \in {"none", "connect", "scan", "mget"} :
            ShorttermGetBySession(ctx, session_id, limit, fail)
    \/ \E key \in DOMAIN redis : RedisExpire(key)

SpecScan == Init /\ [][NextScan]_vars

\* The writes of the two Redis tiers, which share the keyspace of REDIS_URL.
NextWrites ==
    \/ \E ctx \in Tenants, hasContent \in Booleans, session_id \in SessionIds \cup {None},
          ttl_in \in TtlInputs, fail \in {"none", "connect", "set1", "set2"} :
            ShorttermAdd(ctx, hasContent, session_id, ttl_in, fail)
    \/ \E ctx \in WorkingCallers, tenant_id \in TenantIds \cup {None}, session_id \in SessionIds \cup {None},
          hasData \in Booleans, ttl_in \in TtlInputs, fail \in {"none", "connect", "set1"} :
            WorkingAdd(ctx, tenant_id, session_id, hasData, ttl_in, fail)
    \/ \E key \in DOMAIN redis : RedisExpire(key)

SpecWrites == Init /\ [][NextWrites]_vars

NextProcedural ==
    \/ \E ctx \in Tenants, body \in {"none", "nofields", "ok"}, fail \in {"none", "put"} :
            ProcAdd(ctx, body, fail)
    \/ \E ctx \in Tenants, procedure_id \in MemoryIds("proc") \cup {""}, fail \in {"none", "get"} :
            ProcGet(ctx, procedure_id, fail)
    \/ \E ctx \in Tenants, procedure_id \in MemoryIds("proc"), fail \in {"none", "get"} :
            AppGetProcedure(ctx, procedure_id, fail)
    \/ \E ctx \in Tenants, limit \in Limits, min_positive \in Booleans, fail \in {"none", "scan"} :
            ProcList(ctx, limit, min_positive, fail)

SpecProcedural == Init /\ [][NextProcedural]_vars

NextEpisodic ==
    \/ \E ctx \in Tenants, hasTenant \in Booleans, hasFields \in Booleans,
          session_id \in EpisodicSessions, turn_number \in TurnNumbers,
          fail \in {"none", "s3", "index", "both"} :
            EpisodicAdd(ctx, hasTenant, hasFields, session_id, turn_number, fail)
    \/ \E ctx \in Tenants, session_id \in EpisodicSessions \cup {None}, limit \in Limits,
          include_content \in Booleans, fail \in {"none", "query"} :
            EpisodicQuery(ctx, session_id, limit, include_content, fail)
    \/ Tick

SpecEpisodic == Init /\ [][NextEpisodic]_vars

NextLongterm ==
    \/ \E header \in Tenants \cup {None}, body_tenant \in Tenants \cup {None},
          body \in {"none", "nofields", "ok"}, entity_id \in EntityIds, summary \in Summaries,
          body_id \in {"", "ltm_x"}, fail \in {"none", "put"} :
            LtmUpdate(header, body_tenant, body, entity_id, summary, body_id, fail)
    \/ \E header \in Tenants \cup {None}, entity_id \in EntityIds \cup {""},
          fail \in {"none", "query"} :
            LtmGet(header, entity_id, fail)
    \/ \E header \in Tenants \cup {None}, user_id \in EntityIds, limit \in Limits,
          fail \in {"none", "query"} :
            LtmQuery(header, user_id, limit, fail)

SpecLongterm == Init /\ [][NextLongterm]_vars

NextSemantic ==
    \/ \E ctx \in Tenants, tenant_id \in TenantIds \cup {None}, hasContent \in Booleans,
          embedding_in \in EmbeddingInputs, fail \in {"none", "connect", "index"} :
            SemanticAdd(ctx, tenant_id, hasContent, embedding_in, fail)
    \/ \E ctx \in Tenants, tenant_id \in TenantIds \cup {None}, hasQuery \in Booleans,
          search_type \in {"vector", "text", "other"}, fail \in {"none", "connect"} :
            SemanticQuery(ctx, tenant_id, hasQuery, search_type, fail)

SpecSemantic == Init /\ [][NextSemantic]_vars

(***************************************************************************)
(* The ranking function applied to every bounded input, then to its own    *)
(* output with the same max_results and threshold.                         *)
(***************************************************************************)
\* The inputs of the first call: up to MaxLen candidates, a max_results that
\* is a count (0 or more) and a threshold.
InitRank ==
    /\ InitStores
    /\ call = CallIdle
    /\ \E n \in 0..MaxLen : \E f \in [1..n -> Candidate], m \in 0..MaxResults, t \in Thresholds :
          rk = [pc |-> "called", results |-> TaggedList(f, n), max_results |-> m,
                relevance_threshold |-> t, ranked |-> <<>>, reranked |-> <<>>]

RankFirst ==
    /\ rk.pc = "called"
    /\ rk' = [rk EXCEPT !.pc = "ranked",
                        !.ranked = merge_and_rank_results(rk.results, rk.max_results,
                                                          rk.relevance_threshold)]
    /\ UNCHANGED <<redis, procTable, epiIndex, s3, ltmTable, semIndex, clock, nextId, resp, call>>

RankAgain ==
    /\ rk.pc = "ranked"
    /\ rk' = [rk EXCEPT !.pc = "reranked",
                        !.reranked = merge_and_rank_results(rk.ranked, rk.max_results,
                                                            rk.relevance_threshold)]
    /\ UNCHANGED <<redis, procTable, epiIndex, s3, ltmTable, semIndex, clock, nextId, resp, call>>

NextRank == RankFirst \/ RankAgain

SpecRank == InitRank /\ [][NextRank]_vars

(***************************************************************************)
(* generate_embedding called on a text: the handler's implementation,      *)
(* again, and the adapter module's.                                        *)
(***************************************************************************)
InitEmbedding ==
    /\ InitStores
    /\ rk = RankIdle
    /\ \E text \in Texts :
          call = [pc |-> "called", text |-> text, first |-> Returned(<<>>),
                  second |-> Returned(<<>>), other |-> Returned(<<>>)]

EmbedFirst ==
    /\ call.pc = "called"
    /\ call' = [call EXCEPT !.pc = "embedded", !.first = SemanticGenerateEmbedding(call.text)]
    /\ UNCHANGED <<redis, procTable, epiIndex, s3, ltmTable, semIndex, clock, nextId, resp, rk>>

EmbedAgain ==
    /\ call.pc = "embedded"
    /\ call' = [call EXCEPT !.pc = "repeated", !.second = SemanticGenerateEmbedding(call.text)]
    /\ UNCHANGED <<redis, procTable, epiIndex, s3, ltmTable, semIndex, clock, nextId, resp, rk>>

EmbedOther ==
    /\ call.pc = "repeated"
    /\ call' = [call EXCEPT !.pc = "compared", !.other = OpenSearchGenerateEmbedding(call.text)]
    /\ UNCHANGED <<redis, procTable, epiIndex, s3, ltmTable, semIndex, clock, nextId, resp, rk>>

NextEmbedding == EmbedFirst \/ EmbedAgain \/ EmbedOther

SpecEmbedding == InitEmbedding /\ [][NextEmbedding]_vars

(***************************************************************************)
(* calculate_relevance_score called on every pair of bounded vectors.      *)
(***************************************************************************)
InitRelevance ==
    /\ InitStores
    /\ rk = RankIdle
    /\ \E a \in Vectors, b \in Vectors :
          call = [pc |-> "called", query_embedding |-> a, doc_embedding |-> b,
                  result |-> Returned(Zero)]

Score ==
    /\ call.pc = "called"
    /\ call' = [call EXCEPT !.pc = "scored",
                            !.result = calculate_relevance_score(call.query_embedding,
                                                                 call.doc_embedding)]
    /\ UNCHANGED <<redis, procTable, epiIndex, s3, ltmTable, semIndex, clock, nextId, resp, rk>>

NextRelevance == Score

SpecRelevance == InitRelevance /\ [][NextRelevance]_vars

(***************************************************************************)
(* authorize_operation called for one operation, resource and permissions  *)
(* list under each subscription tier in turn.                              *)
(***************************************************************************)
InitAuthorize ==
    /\ InitStores
    /\ rk = RankIdle
    /\ \E operation \in {<<"memory", "read">>, <<"retrieval", "advanced">>,
                          <<"memory", "*">>, <<"admin", "users">>},
          resource \in {None, <<"doc">>},
          permissions \in SUBSET {<<"memory", "read", "doc">>, <<"memory", "read", "*">>,
                                  <<"retrieval", "advanced", "None">>, <<"*", "*">>} :
          call = [pc |-> "called", operation |-> operation, resource |-> resource,
                  permissions |-> permissions, authorized |-> <<>>, tiers |-> {}]

AuthorizeTier ==
    /\ call.pc = "called"
    /\ \E tier \in {"basic", "premium", "enterprise", "trial"} \ call.tiers :
          call' = [call EXCEPT
                     !.tiers = @ \cup {tier},
                     !.authorized = [t \in call.tiers \cup {tier} |->
                         IF t = tier
                         THEN authorize_operation(
                                  TenantContext("a", "u", call.permissions, tier),
                                  call.operation, call.resource)
                         ELSE call.authorized[t]]]
    /\ UNCHANGED <<redis, procTable, epiIndex, s3, ltmTable, semIndex, clock, nextId, resp, rk>>

NextAuthorize == AuthorizeTier

SpecAuthorize == InitAuthorize /\ [][NextAuthorize]_vars

(***************************************************************************)
(* A handler wrapped by require_tenant_auth, called with one event against *)
(* one content of the TenantRegistry and ApiKeys tables.  The wrapper is   *)
(* followed check by check; call.calls lists what it has called so far.    *)
(***************************************************************************)
Tokens ==
    {[valid |-> FALSE]}
    \cup {[valid |-> TRUE, payload |-> payload] :
             payload \in {[tenant_id |-> "a", user_id |-> "u"],
                          [tenant_id |-> "a", user_id |-> "u",
                           permissions |-> {<<"memory", "write", "*">>}],
                          [user_id |-> "u"]}}
Events ==
    {[path |-> "/memories"]}
    \cup {[path |-> "/memories", headers |-> headers] :
             headers \in {("Authorization" :> <<"Bearer", token>>) : token \in Tokens}
                         \cup {("Authorization" :> <<"Basic", "dTpw">>),
                               ("X-API-Key" :> "k1"), ("X-API-Key" :> "k0"),
                               ("User-Agent" :> "curl")}}
TenantTables ==
    {[readable |-> FALSE]}
    \cup {[readable |-> TRUE, items |-> ("a" :> item)] :
             item \in {[status |-> "active"], [status |-> "suspended"],
                       [status |-> "active", subscription_tier |-> "premium"],
                       [status |-> "active", subscription_tier |-> "enterprise"]}}
ApiKeyTables ==
    {[readable |-> FALSE]}
    \cup {[readable |-> TRUE, items |-> ("k1" :> item)] :
             item \in {[status |-> "active", tenant_id |-> "a"],
                       [status |-> "revoked", tenant_id |-> "a"],
                       [status |-> "active", tenant_id |-> "a", expires_at |-> -1,
                        permissions |-> {<<"*", "*">>}],
                       [status |-> "active", tenant_id |-> "a", expires_at |-> 1,
                        permissions |-> {<<"memory", "read", "None">>}]}}

InitWrapper ==
    /\ InitStores
    /\ rk = RankIdle
    /\ \E operation \in {<<"memory", "read">>, <<"retrieval", "advanced">>},
          event \in Events, tenants \in TenantTables, api_keys \in ApiKeyTables :
          call = [pc |-> "called", operation |-> operation, resource |-> None,
                  event |-> event, tenants |-> tenants, api_keys |-> api_keys,
                  tenant_context |-> NoValue, calls |-> <<>>, statusCode |-> 0]

Authenticate ==
    /\ call.pc = "called"
    /\ LET tenant_context == authenticate_request(call.api_keys, call.tenants, call.event)
       IN  call' = [call EXCEPT
                      !.calls = Append(@, "authenticate_request"),
                      !.tenant_context = tenant_context,
                      !.statusCode = IF tenant_context.found THEN @ ELSE 401,
                      !.pc = IF tenant_context.found THEN "authenticated" ELSE "returned"]
    /\ UNCHANGED <<redis, procTable, epiIndex, s3, ltmTable, semIndex, clock, nextId, resp, rk>>

\* The step that goes on whatever authorize_operation answers
AuthorizeIgnored ==
    /\ call.pc = "authenticated"
    /\ call' = [call EXCEPT !.calls = Append(@, "authorize_operation"),
                            !.pc = "authorized"]
    /\ UNCHANGED <<redis, procTable, epiIndex, s3, ltmTable, semIndex, clock, nextId, resp, rk>>
Authorize ==
    /\ call.pc = "authenticated"
    /\ LET authorized == authorize_operation(call.tenant_context.dict, call.operation,
                                             call.resource)
       IN  call' = [call EXCEPT
                      !.calls = Append(@, "authorize_operation"),
                      !.statusCode = IF authorized THEN @ ELSE 403,
                      !.pc = IF authorized THEN "authorized" ELSE "returned"]
    /\ UNCHANGED <<redis, procTable, epiIndex, s3, ltmTable, semIndex, clock, nextId, resp, rk>>

CheckRateLimits ==
    /\ call.pc = "authorized"
    /\ LET within == check_rate_limits(call.tenant_context.dict, call.operation)
       IN  call' = [call EXCEPT
                      !.calls = Append(@, "check_rate_limits"),
                      !.statusCode = IF within THEN @ ELSE 429,
                      !.event = IF within
                                THEN @ @@ [tenant_context |-> call.tenant_context.dict]
                                ELSE @,
                      !.pc = IF within THEN "limited" ELSE "returned"]
    /\ UNCHANGED <<redis, procTable, epiIndex, s3, ltmTable, semIndex, clock, nextId, resp, rk>>

\* func(event, context): the wrapped handler answers for the tenant it is given
Invoke ==
    /\ call.pc = "limited"
    /\ call' = [call EXCEPT !.calls = Append(@, "func"),
                            !.statusCode = 200,
                            !.pc = "returned"]
    /\ UNCHANGED <<redis, procTable, epiIndex, s3, ltmTable, semIndex, clock, nextId, resp, rk>>

NextWrapper == Authenticate \/ Authorize \/ CheckRateLimits \/ Invoke

SpecWrapper == InitWrapper /\ [][NextWrapper]_vars

(***************************************************************************)
(* chunk_text called on every bounded text, chunk size and overlap.        *)
(***************************************************************************)
InitChunk ==
    /\ InitStores
    /\ rk = RankIdle
    /\ \E text \in ChunkTexts, chunk_size \in 1..MaxChunkSize :
          \E overlap \in 0..(chunk_size - 1) :
             call = [pc |-> "called", text |-> text, chunk_size |-> chunk_size,
                     overlap |-> overlap, start |-> 0, chunks |-> <<>>]

ChunkEnter ==
    /\ call.pc = "called"
    /\ call' = IF Len(call.text) <= call.chunk_size
               THEN [call EXCEPT !.pc = "returned", !.chunks = <<call.text>>]
               ELSE [call EXCEPT !.pc = "while"]
    /\ UNCHANGED <<redis, procTable, epiIndex, s3, ltmTable, semIndex, clock, nextId, resp, rk>>

ChunkIterate ==
    /\ call.pc = "while"
    /\ Len(call.chunks) < MaxChunks
    /\ LET step == ChunkIteration(call.text, call.chunk_size, call.overlap, call.start)
       IN  call' = [call EXCEPT
                      !.chunks = Append(@, step.chunk),
                      !.start = step.start,
                      !.pc = IF step.start >= Len(call.text) THEN "returned" ELSE "while"]
    /\ UNCHANGED <<redis, procTable, epiIndex, s3, ltmTable, semIndex, clock, nextId, resp, rk>>

NextChunk == ChunkEnter \/ ChunkIterate

SpecChunk == InitChunk /\ [][NextChunk]_vars /\ WF_vars(NextChunk)

(***************************************************************************)
(* Tenant isolation                                                        *)
(***************************************************************************)
\* The tenant a record belongs to: its tenant_id where the write stored or
\* keyed one, else the tenant that wrote it.
RecordTenant(r) == IF "tenant_id" \in DOMAIN r THEN r.tenant_id ELSE r.writer

\* The requester's resolved tenant: the one the handler worked under, else
\* the one the request came from.
Requester == IF resp.tenant # None THEN resp.tenant ELSE resp.ctx

\* C1: a point lookup by bare id (short-term get_memory with memory_id,
\* procedural get_procedure) issued under tenant B returns no record that
\* was written under another tenant, even when B supplies the exact id.
C1_PointLookupTenantSafe ==
    resp.op \in {"stm_get_id", "proc_get"} =>
        \A i \in DOMAIN resp.items : resp.items[i].writer = resp.ctx

\* C2: every record that a query or scan returns (episodic query_memories,
\* long-term get_memory and query_memories, semantic handle_query_memory)
\* has the tenant of the requester.
C2_QueryResultsTenantScoped ==
    resp.op \in {"epi_query", "ltm_get", "ltm_query", "sem_query"} =>
        \A i \in DOMAIN resp.items : RecordTenant(resp.items[i]) = Requester

\* C3: get_memories issued under tenant B, with or without a session filter,
\* returns no record that add_memory stored under the key of another tenant.
C3_WorkingReadsConfined ==
    resp.op = "wm_get" =>
        \A i \in DOMAIN resp.items : resp.items[i].tenant_id = resp.tenant

\* get_memories answered 200 under a tenant_id whose pattern matches a key
\* that add_memory stored for another tenant.
C3_Witness ==
    /\ resp.op = "wm_get"
    /\ resp.status = 200
    /\ \E k \in DOMAIN redis :
          /\ redis[k].val.tier = "working"
          /\ redis[k].val.tenant_id # resp.tenant
          /\ redis[k].val.tenant_id \in Tenants
          /\ GlobMatch(WorkingPattern(resp.tenant, resp.arg), k)

\* C4: the tenant_id persisted by a write (working, semantic, long-term) is
\* the tenant of the request's context or header, also when the payload
\* carries another tenant_id.
C4_ContextTenantStored ==
    (resp.op \in {"wm_add", "sem_add", "ltm_update"} /\ resp.status = 201 /\ resp.ctx # None) =>
        /\ \A k \in DOMAIN redis :
              (redis[k].val.tier = "working" /\ redis[k].val.memory_id = resp.id)
                  => redis[k].val.tenant_id = resp.ctx
        /\ \A d \in DOMAIN semIndex : d = resp.id => semIndex[d].tenant_id = resp.ctx
        /\ \A i \in DOMAIN ltmTable :
              (resp.op = "ltm_update" /\ <<ltmTable[i].entity_id>> = resp.arg)
                  => ltmTable[i].tenant_id = resp.ctx

\* C5: a write or read that carries no tenant_id (working, long-term) fails
\* with a validation error before any store call, and nothing is done under
\* a default tenant.
C5_MissingTenantRejected ==
    (resp.op \in {"wm_add", "wm_get", "wm_clear", "ltm_update", "ltm_get"} /\ resp.given = None) =>
        /\ resp.status = 400
        /\ resp.calls = <<>>
        /\ resp.tenant # DefaultTenant


(***************************************************************************)
(* Time to live                                                            *)
(***************************************************************************)
\* The id of a record of the Redis tiers
RecordId(r) == IF r.tier = "working" THEN r.memory_id ELSE r.id

\* The keys that the write of the last response stored and that are still there
WrittenKeys == { k \in DOMAIN redis : RecordId(redis[k].val) = resp.id }

\* C11: a short-term write without ttl_seconds is stored with a TTL of
\* 604800, a working write without ttl_seconds with a TTL of 3600, and a
\* positive ttl_seconds is the TTL of the stored key.
C11_TtlResolved ==
    (resp.op \in {"stm_add", "wm_add"} /\ resp.status = 201) =>
        \A k \in WrittenKeys :
            /\ (resp.op = "stm_add" /\ resp.req.ttl_in = Absent) => redis[k].ttl = 604800
            /\ (resp.op = "wm_add" /\ resp.req.ttl_in = Absent) => redis[k].ttl = 3600
            /\ resp.req.ttl_in > 0 => redis[k].ttl = resp.req.ttl_in

\* A working write without ttl_seconds whose key is there with 3600, next to
\* short-term keys: one written without ttl_seconds, or one with 60.
C11_Witness ==
    /\ resp.op = "wm_add"
    /\ resp.status = 201
    /\ resp.req.ttl_in = Absent
    /\ \E k \in WrittenKeys : redis[k].ttl = 3600
    /\ \E k \in DOMAIN redis :
          /\ redis[k].val.tier = "shortterm"
          /\ redis[k].ttl \in {60, 604800}

\* C12: a short-term or working write that asks for a ttl_seconds of zero or
\* less is answered with a validation error, and no key is written for it.
C12_NonPositiveTtlRejected ==
    ( /\ resp.op \in {"stm_add", "wm_add"}
      /\ resp.req.complete
      /\ resp.req.failed = "none"
      /\ resp.req.ttl_in # Absent
      /\ resp.req.ttl_in <= 0 ) =>
        /\ resp.status = 400
        /\ WrittenKeys = {}

\* C13: the key of a successful short-term or working write has an expiry,
\* and the expiry is the ttl_seconds that the response of the write reports.
C13_ExpiryIsReportedTtl ==
    (resp.op \in {"stm_add", "wm_add"} /\ resp.status = 201) =>
        \A k \in WrittenKeys :
            /\ redis[k].ttl # NoExpiry
            /\ redis[k].ttl = resp.ttl

(***************************************************************************)
(* Episodic index and content, ids                                         *)
(***************************************************************************)
\* C14: every item of the episodic index names, by s3_key, an object that is
\* in the content bucket: no index item is written for a content put that
\* failed.
C14_IndexedContentPersisted ==
    \A i \in DOMAIN epiIndex : epiIndex[i].s3_key \in DOMAIN s3

\* C15: the ids given to episodic writes carry the epi_ prefix and no two
\* writes, also of the same clock second, were given the same id.
C15_IdsUnique ==
    /\ \A i \in DOMAIN epiIndex : epiIndex[i].memory_id \in { EpisodicId(c) : c \in 0..MaxClock }
    /\ \A i, j \in DOMAIN epiIndex : i # j => epiIndex[i].memory_id # epiIndex[j].memory_id

\* What query_memories(session_id, limit) gives on an index, the store
\* answering; MaxWrites is a limit that no session exceeds.
EpisodicVisible(index, session_id) == EpisodicQueryMemories(index, s3, session_id, MaxWrites, FALSE, "none")

\* C17: each successful add_memory for a session adds one record to what
\* query_memories returns for that session, after the records of the earlier
\* writes and with the turn_number written, and changes nothing for other
\* sessions: after k successful writes the query returns k records in the
\* order of the writes.
C17_SessionHistoryInOrder ==
    [][ (resp'.op = "epi_add" /\ resp'.status = 201 /\ nextId' = nextId + 1) =>
            LET written == resp'.items[1]
                before == EpisodicVisible(epiIndex, written.session_id)
                after == EpisodicVisible(epiIndex', written.session_id)
            IN  /\ Len(after) = Len(before) + 1
                /\ SubSeq(after, 1, Len(before)) = before
                /\ after[Len(after)].turn_number = written.turn_number
                /\ \A s \in EpisodicSessions :
                      s # written.session_id =>
                          EpisodicVisible(epiIndex', s) = EpisodicVisible(epiIndex, s) ]_vars

(***************************************************************************)
(* Long-term upsert                                                        *)
(***************************************************************************)
\* What get_memory(entity_id) gives under tenant_id on a table, the store
\* answering
LtmVisible(table, tenant_id, entity_id) == LtmGetMemory(table, tenant_id, entity_id, "none")

\* C16: update_memory is an upsert per (tenant_id, entity_id).  A successful
\* update of entity E under tenant T makes get_memory(E) under T return the
\* summary just written, and leaves what get_memory returns for every other
\* tenant and entity as it was: get_memory(E) under T is T's latest
\* successful write of E, and nothing only when T never wrote E.
C16_UpsertPerTenantEntity ==
    [][ (resp'.op = "ltm_update" /\ resp'.status = 201 /\ nextId' = nextId + 1) =>
            LET written == resp'.items[1]
            IN  /\ LtmVisible(ltmTable', written.tenant_id, written.entity_id) # <<>>
                /\ LtmVisible(ltmTable', written.tenant_id, written.entity_id)[1].summary = written.summary
                /\ \A t \in Tenants \cup {DefaultTenant}, e \in EntityIds :
                      <<t, e>> # <<written.tenant_id, written.entity_id>> =>
                          LtmVisible(ltmTable', t, e) = LtmVisible(ltmTable, t, e) ]_vars

(***************************************************************************)
(* Error outcomes                                                          *)
(***************************************************************************)
\* C18: a write that lacks a required field (short-term content; episodic
\* tenant_id, session_id, turn_number, user_input, agent_response; working
\* session_id, data) is answered 400 and no store call was made for it, not
\* even the opening or the ping of a connection, whether the store is
\* available or not.
C18_ValidationBeforeStore ==
    (resp.op \in {"stm_add", "wm_add", "epi_add"} /\ ~resp.req.complete) =>
        /\ resp.status = 400
        /\ resp.calls = <<>>

\* C19: a store call that fails during episodic add_memory (the object put or
\* the index put), during long-term get_memory (the query) or during
\* procedural get_procedure (the get) gives a server-fault response, not a
\* success and not a not-found.
C19_StoreFailureIsServerFault ==
    /\ (resp.op = "epi_add" /\ resp.req.failed \in {"s3", "index", "both"}) => resp.status = 500
    /\ (resp.op = "ltm_get" /\ resp.req.failed = "query") => resp.status = 500
    /\ (resp.op = "proc_get" /\ resp.req.failed = "get") => resp.status = 500

\* The request of the last response was well formed, every store call made
\* for it succeeded, and it found no record.
FoundNothing == resp.req.complete /\ resp.req.failed = "none" /\ resp.items = <<>>

\* C20: a point lookup that finds nothing (short-term by memory_id,
\* procedural by procedure_id, long-term by entity_id) is answered not-found,
\* and a session or scan query that matches nothing is answered as a success
\* with no items; not-found is never answered as a server fault.
C20_NotFoundDistinctFromEmpty ==
    /\ (resp.op \in {"stm_get_id", "proc_get", "app_proc_get", "ltm_get"} /\ FoundNothing) =>
            resp.status = 404
    /\ (resp.op \in {"stm_get_session", "epi_query", "proc_list", "ltm_query"} /\ FoundNothing) =>
            resp.status = 200

(***************************************************************************)
(* Semantic tier                                                           *)
(***************************************************************************)
\* C21: a semantic write whose body carries an embedding that is not a list
\* of exactly 768 numbers (another length, the empty list, not a list) is
\* answered with a validation error, and add_document is not called for it.
C21_BadEmbeddingRejected ==
    ( /\ resp.op = "sem_add"
      /\ resp.req.complete
      /\ resp.req.failed = "none"
      /\ resp.arg[1] # "none"
      /\ resp.arg # <<"list", 768>> ) =>
        /\ resp.status = 400
        /\ \A i \in DOMAIN resp.calls : resp.calls[i] # "index"

\* A response body that carries a degraded flag
HasDegradedFlag(response) == "degraded" \in DOMAIN response

\* C22: a query made while the search index is unreachable does not fail: it
\* is answered as a success, and the result carries a degraded flag.
C22_UnreachableIndexDegrades ==
    (resp.op = "sem_query" /\ resp.req.complete /\ resp.req.failed = "connect") =>
        /\ resp.status = 200
        /\ HasDegradedFlag(resp)

\* C23: generate_embedding is deterministic and total: for every text two
\* calls return the same vector, the vector has exactly 768 components, and
\* the implementation of services/opensearch.py returns the same vector.
C23_EmbeddingTotalDeterministic ==
    call.pc = "compared" =>
        /\ call.first.raised = ""
        /\ Len(call.first.value) = 768
        /\ call.second = call.first
        /\ call.other = call.first

\* C23 as amended: for every text that UTF-8 can encode, two calls return the
\* same vector of exactly 768 components and both implementations return the
\* same vector; for a text with a lone surrogate every call raises
\* UnicodeEncodeError and returns no vector, not a partial one.
C23_EmbeddingDeterministic ==
    call.pc = "compared" =>
        /\ call.second = call.first
        /\ call.other = call.first
        /\ IF \E i \in DOMAIN call.text : IsSurrogate(call.text[i])
           THEN call.first = Raised("UnicodeEncodeError")
           ELSE call.first.raised = "" /\ Len(call.first.value) = 768

\* Both implementations were called on a text of two code points, one of
\* them of two bytes, and returned a vector of 768 components.
C23_Witness ==
    /\ call.pc = "compared"
    /\ call.text = <<97, 233>>
    /\ call.first.raised = ""
    /\ Len(call.other.value) = 768

(***************************************************************************)
(* Short-term reads                                                        *)
(***************************************************************************)
\* C25: a short-term session scan for session_id S returns only records that
\* add_memory stored with session_id S, at most limit of them, and reports a
\* count equal to the number of records returned, whatever string S is.
C25_SessionScanExact ==
    resp.op = "stm_get_session" =>
        /\ \A i \in DOMAIN resp.items : resp.items[i].session_id = resp.arg
        /\ Len(resp.items) <= resp.limit
        /\ resp.count = Len(resp.items)

\* A scan answered 200 after the value fetch, for a session_id whose pattern
\* matches a key that add_memory stored for another session.
C25_Witness ==
    /\ resp.op = "stm_get_session"
    /\ resp.status = 200
    /\ \E i \in DOMAIN resp.calls : resp.calls[i] = "mget"
    /\ \E k \in DOMAIN redis :
          /\ redis[k].val.tier = "shortterm"
          /\ redis[k].val.session_id # resp.arg
          /\ GlobMatch(ShorttermPattern(resp.arg), k)

\* C26: a read succeeds when a scanned key is gone before its value is
\* fetched: the list returned holds records only, no placeholder of a key
\* that is not there, and count is the length of the list.  (The working
\* read fetches the keys that keys() lists.)
C26_ReadToleratesExpiry ==
    /\ (resp.op = "stm_get_session" /\ resp.req.failed = "none") =>
            /\ resp.status = 200
            /\ \A i \in DOMAIN resp.items : "id" \in DOMAIN resp.items[i]
            /\ resp.count = Len(resp.items)
    /\ (resp.op = "wm_get" /\ resp.req.failed = "none") =>
            /\ resp.status = 200
            /\ \A i \in DOMAIN resp.items : "memory_id" \in DOMAIN resp.items[i]

\* A scan matched two keys or more, one of them was gone before the value
\* fetch, and the read was answered.
C26_Witness ==
    /\ resp.op = "stm_get_session"
    /\ resp.req.failed = "none"
    /\ resp.expired # {}
    /\ \E k \in DOMAIN redis : GlobMatch(ShorttermPattern(resp.arg), k)
    /\ \E i \in DOMAIN resp.calls : resp.calls[i] = "mget"

\* C27: a short-term add_memory with a session_id is all or nothing across
\* its two keys: when the call has ended, either it is answered 201 and the
\* keys {memory_id} and session:{session_id}:{memory_id} hold the same record
\* with the same TTL, or it is answered with an error and neither key is
\* there.
C27_TwoKeysAllOrNothing ==
    [][ (resp'.op = "stm_add" /\ nextId' = nextId + 1 /\ resp'.arg # None) =>
            LET memory_id == generate_id("stm", nextId)
                session_key == ShorttermSessionKey(resp'.arg, memory_id)
            IN  \/ /\ resp'.status = 201
                   /\ RedisHas(redis', <<memory_id>>)
                   /\ RedisHas(redis', session_key)
                   /\ redis'[<<memory_id>>] = redis'[session_key]
                \/ /\ resp'.status # 201
                   /\ ~RedisHas(redis', <<memory_id>>)
                   /\ ~RedisHas(redis', session_key) ]_vars

(***************************************************************************)
(* Similarity                                                              *)
(***************************************************************************)
\* Every component of the vector is zero
ZeroVector(v) == \A i \in DOMAIN v : v[i].c = 0

\* Every component of the vector is a float
FloatVector(v) == \A i \in DOMAIN v : v[i].ty = "float"

\* C24: calculate_relevance_score returns 0.0 whenever either vector is empty
\* or has zero magnitude, and for every pair of numeric vectors it returns a
\* value: it does not divide by zero and does not raise.
C24_ScoreNeverRaises ==
    call.pc = "scored" =>
        /\ call.result.raised = ""
        /\ (ZeroVector(call.query_embedding) \/ ZeroVector(call.doc_embedding)) =>
               call.result = Returned(Zero)

\* C24 as amended: the score is 0.0 whenever either vector is empty, and, for
\* vectors of floats, whenever either has zero magnitude; for every pair of
\* vectors of floats a value is returned; no call divides by zero, and a call
\* raises only OverflowError, on an int component whose square is beyond the
\* range of a float.
C24_ScoreOfFloatsNeverRaises ==
    call.pc = "scored" =>
        /\ call.result.raised \in {"", "OverflowError"}
        /\ (call.query_embedding = <<>> \/ call.doc_embedding = <<>>) =>
               call.result = Returned(Zero)
        /\ (FloatVector(call.query_embedding) /\ FloatVector(call.doc_embedding)) =>
               /\ call.result.raised = ""
               /\ (ZeroVector(call.query_embedding) \/ ZeroVector(call.doc_embedding)) =>
                      call.result = Returned(Zero)

\* A vector of zeros scored against a vector of floats that is not zero:
\* one magnitude is zero, the other is not, and the score is 0.0.
C24_Witness ==
    /\ call.pc = "scored"
    /\ call.query_embedding = <<PyFloat(0, 0), PyFloat(0, 0)>>
    /\ call.doc_embedding = <<PyFloat(0, 1), PyFloat(1, 1)>>
    /\ call.result = Returned(Zero)

(***************************************************************************)
(* Tenant authentication and authorization                                 *)
(***************************************************************************)
\* What require_tenant_auth calls when every check passes, in order
WrapperCalls == <<"authenticate_request", "authorize_operation", "check_rate_limits", "func">>

\* C28: require_tenant_auth calls the wrapped handler only after
\* authentication, authorization and the rate-limit check have passed, in that
\* order; the first check that fails answers alone (401, 403, 429), no later
\* check and no handler is called, and event['tenant_context'] is set only
\* when all three passed.
C28_ChecksInOrder ==
    LET tenant_context == authenticate_request(call.api_keys, call.tenants, call.event)
        authenticated == tenant_context.found
        authorized == authenticated /\ authorize_operation(tenant_context.dict,
                                                           call.operation, call.resource)
        within == authorized /\ check_rate_limits(tenant_context.dict, call.operation)
        failing == IF ~authenticated THEN 1 ELSE IF ~authorized THEN 2
                   ELSE IF ~within THEN 3 ELSE 4
    IN  /\ Len(call.calls) <= failing
        /\ call.calls = SubSeq(WrapperCalls, 1, Len(call.calls))
        /\ call.pc = "returned" =>
              /\ Len(call.calls) = failing
              /\ call.statusCode = <<401, 403, 429, 200>>[failing]
        /\ "tenant_context" \in DOMAIN call.event =>
              /\ within
              /\ call.event.tenant_context = tenant_context.dict

\* C28 witness: an authenticated caller is refused by the authorization check
C28_Witness ==
    /\ call.pc = "returned"
    /\ call.statusCode = 403
    /\ call.calls = <<"authenticate_request", "authorize_operation">>
    /\ call.tenant_context.found

\* C29: authorize_operation is monotone in the subscription tier: what tier
\* 'basic' is authorized for, tiers 'premium' and 'enterprise' are authorized
\* for with the same permissions list, and an unknown tier is authorized for
\* nothing.
C29_TierMonotone ==
    LET basic == "basic" \in call.tiers /\ call.authorized["basic"]
    IN  /\ (basic /\ "premium" \in call.tiers) => call.authorized["premium"]
        /\ (basic /\ "enterprise" \in call.tiers) => call.authorized["enterprise"]
        /\ "trial" \in call.tiers => ~call.authorized["trial"]

(***************************************************************************)
(* Chunking                                                                *)
(***************************************************************************)
\* C30: chunk_text terminates for every text, chunk_size >= 1 and
\* 0 <= overlap < chunk_size: every iteration of the loop strictly increases
\* start, and the call returns.
C30_ChunkTextTerminates ==
    /\ [][call.pc = "while" => call'.start > call.start]_vars
    /\ <>(call.pc = "returned")

(***************************************************************************)
(* Ranking                                                                 *)
(***************************************************************************)
Ranked == rk.pc \in {"ranked", "reranked"}

\* The candidates of the input that pass the threshold.
Passing == { i \in DOMAIN rk.results : GetScore(rk.results[i]) >= rk.relevance_threshold }

PassingFingerprints == { hash_content(GetContent(rk.results[i])) : i \in Passing }

\* a is ranked at least as high as b: a greater key, or the same key and
\* an earlier place in the input.
RanksFirst(a, b) == KeyGreater(a, b) \/ (KeyEqual(a, b) /\ a.id <= b.id)

\* C6: every element of the result of merge_and_rank_results has a
\* relevance_score (0 when the candidate has none) that is at least the
\* threshold.
C6_ThresholdFilter ==
    Ranked => \A i \in DOMAIN rk.ranked : GetScore(rk.ranked[i]) >= rk.relevance_threshold

\* The case of C6: a candidate of score 0.9 and candidates with no score,
\* of different contents, under threshold 0.7 give only the 0.9 candidate.
C6_Witness ==
    /\ Ranked
    /\ rk.relevance_threshold = 7
    /\ Len(rk.results) = 3
    /\ Cardinality({ hash_content(GetContent(rk.results[i])) : i \in DOMAIN rk.results }) = 3
    /\ Cardinality({ i \in DOMAIN rk.results : rk.results[i].relevance_score = Absent }) = 2
    /\ Len(rk.ranked) = 1
    /\ rk.ranked[1].relevance_score = 9

\* C7: along the result the score does not increase, among equal scores the
\* timestamp does not increase, and candidates equal on both keep the order
\* they had in the input.
C7_TotalOrder ==
    Ranked => \A i, j \in DOMAIN rk.ranked :
                 i < j => /\ GetScore(rk.ranked[i]) >= GetScore(rk.ranked[j])
                          /\ GetScore(rk.ranked[i]) = GetScore(rk.ranked[j])
                                => GetTimestamp(rk.ranked[i]) >= GetTimestamp(rk.ranked[j])
                          /\ KeyEqual(rk.ranked[i], rk.ranked[j])
                                => rk.ranked[i].id < rk.ranked[j].id

\* The case of C7: the result holds two candidates with the same score and
\* different timestamps that stood in the other order in the input, and
\* two candidates equal on both keys.
C7_Witness ==
    /\ Ranked
    /\ Len(rk.ranked) = 3
    /\ \E i, j \in DOMAIN rk.ranked :
          /\ i < j
          /\ GetScore(rk.ranked[i]) = GetScore(rk.ranked[j])
          /\ GetTimestamp(rk.ranked[i]) > GetTimestamp(rk.ranked[j])
          /\ rk.ranked[i].id > rk.ranked[j].id
    /\ \E i, j \in DOMAIN rk.ranked : i < j /\ KeyEqual(rk.ranked[i], rk.ranked[j])

\* C8: no two elements of the result share a content fingerprint, and an
\* element of the result is the highest-ranked (score, then timestamp, then
\* place in the input) of the passing candidates that have its content.
C8_Deduplicated ==
    Ranked =>
        /\ \A i, j \in DOMAIN rk.ranked :
              i # j => hash_content(GetContent(rk.ranked[i]))
                          # hash_content(GetContent(rk.ranked[j]))
        /\ \A i \in DOMAIN rk.ranked : \A k \in Passing :
              GetContent(rk.results[k]) = GetContent(rk.ranked[i])
                 => RanksFirst(rk.ranked[i], rk.results[k])

\* The case of C8: two passing candidates with the same content and
\* different scores, the lower one first in the input, collapse to the
\* higher one.
C8_Witness ==
    /\ Ranked
    /\ \E k, l \in Passing :
          /\ k < l
          /\ GetContent(rk.results[k]) = GetContent(rk.results[l])
          /\ GetScore(rk.results[k]) < GetScore(rk.results[l])
          /\ \E i \in DOMAIN rk.ranked : rk.ranked[i] = rk.results[l]
          /\ \A i \in DOMAIN rk.ranked : rk.ranked[i] # rk.results[k]

\* C9: merge_and_rank_results applied to its own output, with the same
\* max_results and threshold, returns that output, element for element.
C9_Idempotent == rk.pc = "reranked" => rk.reranked = rk.ranked

\* The case of C9: the first call reordered the candidates, and its output,
\* given to the second call, holds candidates equal on both sort keys.
C9_Witness ==
    /\ rk.pc = "reranked"
    /\ Len(rk.ranked) = 3
    /\ rk.ranked[1].id > rk.ranked[2].id
    /\ \E i, j \in DOMAIN rk.ranked : i < j /\ KeyEqual(rk.ranked[i], rk.ranked[j])

\* C10: for max_results >= 0 the result has min(max_results, number of
\* distinct content fingerprints among the passing candidates) elements: at
\* most max_results, and exactly max_results when that many distinct
\* fingerprints pass, the duplicates taking no place.
C10_Length ==
    Ranked =>
        /\ Len(rk.ranked) <= rk.max_results
        /\ Len(rk.ranked) = IF Cardinality(PassingFingerprints) < rk.max_results
                               THEN Cardinality(PassingFingerprints)
                               ELSE rk.max_results

\* The case of C10: the two highest-ranked passing candidates are
\* duplicates, max_results is 2, and two elements are returned.
C10_Witness ==
    /\ Ranked
    /\ rk.max_results = 2
    /\ Len(rk.ranked) = 2
    /\ LET sorted == SortResults(FilterResults(rk.results, rk.relevance_threshold))
       IN  /\ Len(sorted) = 3
           /\ hash_content(GetContent(sorted[1])) = hash_content(GetContent(sorted[2]))

====
